---- MODULE Spec2Model ----
(***************************************************************************)
(* Model of the formula precomputer of rust-logic-tools:                   *)
(*   src/src/logic.rs               SimpleLogicNode, literals              *)
(*   src/src/truth_table_size_5.rs  TruthTableSize5Computer                *)
(*   src/src/formula_precomputer.rs buckets, clause universe, generator    *)
(*                                                                         *)
(* Representation.                                                         *)
(*  - A u32 word is the set of its 1-bits, a subset of 0..31; the bitwise  *)
(*    operators are set operators and a shift moves the positions and      *)
(*    drops what leaves 0..31.                                             *)
(*  - A literal (u32: bit 31 = negated, bits 0..30 = variable index) is    *)
(*    the record [index, negated].                                         *)
(*  - Vec<T> is a sequence; the code's index i is i+1 here.                *)
(***************************************************************************)
EXTENDS Integers, Sequences, FiniteSets, TLC

\* ---------------------------------------------------------------- bounds
\* Largest variable count handed to the entry point (the code accepts 1..=5).
MaxN == 6
\* Cap on the calls of generate_all_normal_formulas_with_prefix in one run.
MaxCalls == 300
\* Largest number of nodes of a formula tree handed to generate_cnf_from_dnf.
MaxNodes == 5
\* Largest number of add_formula calls on the bucket of SpecBucket.
MaxAdds == 3
\* Largest number of nodes of the enumerated trees handed to compute_truth_table.
MaxEvalNodes == 3
\* Largest length of the enumerated index vectors handed to AssignFlagsIterator::new,
\* and the number of next() calls made after the iterator is exhausted.
MaxIterLen == 3
ExtraCalls == 2
\* Number of variables of the clauses handed to is_subarray_of on its own.
MaxSubVars == 3
MaxListLen == 2

\* ------------------------------------------------------------- u32 words
WORD_BITS == 32
BitPositions == 0 .. (WORD_BITS - 1)
U32_MAX == BitPositions
BitAnd(a, b) == a \cap b
BitOr(a, b) == a \cup b
BitNot(a) == BitPositions \ a
Shl(a, k) == {b + k : b \in a} \cap BitPositions
Shr(a, k) == {b - k : b \in a} \cap BitPositions

\* The number a word stands for (used only where it is below 2^31).
RECURSIVE WordToNat(_)
WordToNat(w) ==
    IF w = {} THEN 0
    ELSE LET b == CHOOSE x \in w : \A y \in w : y <= x
         IN  2 ^ b + WordToNat(w \ {b})

\* The word of a natural number.
NatToWord(v) == {b \in BitPositions : b <= 30 /\ (v \div (2 ^ b)) % 2 = 1}

\* Unsigned comparison a < b of two words.
WordLess(a, b) ==
    \E k \in b \ a : \A j \in BitPositions : j > k => (j \in a <=> j \in b)

\* -------------------------------------------------------------- literals
PositiveLiteral(i) == [index |-> i, negated |-> FALSE]
\* i | NEGATIVITY_FLAG
NegativeLiteral(i) == [index |-> i, negated |-> TRUE]
get_variable_index(literal) == literal.index
is_positive_literal(literal) == ~literal.negated
\* a ^ b == NEGATIVITY_FLAG : equal low 31 bits, different bit 31
XorIsNegativityFlag(a, b) == a.index = b.index /\ a.negated # b.negated

\* -------------------------------------------------------- SimpleLogicNode
NoLiteral == [index |-> 0, negated |-> FALSE]
False == [kind |-> "False", lit |-> NoLiteral, operands |-> <<>>]
True == [kind |-> "True", lit |-> NoLiteral, operands |-> <<>>]
Literal(l) == [kind |-> "Literal", lit |-> l, operands |-> <<>>]
Conjunction(ops) == [kind |-> "Conjunction", lit |-> NoLiteral, operands |-> ops]
Disjunction(ops) == [kind |-> "Disjunction", lit |-> NoLiteral, operands |-> ops]

RECURSIVE count_binary_operators(_)
RECURSIVE CountOperands(_, _)
CountOperands(ops, i) ==
    IF i > Len(ops) THEN 0
    ELSE count_binary_operators(ops[i]) + CountOperands(ops, i + 1)
count_binary_operators(f) ==
    IF f.kind \in {"Conjunction", "Disjunction"}
    THEN 1 + CountOperands(f.operands, 1)
    ELSE 0

\* ------------------------------------------------------------- evaluate
\* truth_values is the HashMap<u32,bool>: a function on the variables that have a value.
\* the comparison of line 212 turned round
evaluate_single_literal_Inverted(literal, truth_values) ==
    IF get_variable_index(literal) \in DOMAIN truth_values
    THEN IF truth_values[get_variable_index(literal)] # is_positive_literal(literal)
         THEN "MustBeTrue" ELSE "MustBeFalse"
    ELSE "Unrestricted"

evaluate_single_literal(literal, truth_values) ==
    IF get_variable_index(literal) \in DOMAIN truth_values
    THEN IF truth_values[get_variable_index(literal)] = is_positive_literal(literal)
         THEN "MustBeTrue" ELSE "MustBeFalse"
    ELSE "Unrestricted"

RECURSIVE evaluate(_, _)
RECURSIVE EvaluateConjuncts(_, _, _, _)
RECURSIVE EvaluateDisjuncts(_, _, _, _)
\* lines 171-182: the loop over the conjuncts from the i-th on, with its early return
EvaluateConjuncts(conjunct_vec, i, truth_values, contains_unknown_children) ==
    IF i > Len(conjunct_vec)
    THEN IF contains_unknown_children THEN "Unrestricted" ELSE "MustBeTrue"
    ELSE LET value == evaluate(conjunct_vec[i], truth_values)
         IN  IF value = "MustBeFalse" THEN "MustBeFalse"
             ELSE EvaluateConjuncts(conjunct_vec, i + 1, truth_values,
                                    contains_unknown_children \/ value = "Unrestricted")
\* lines 186-197
EvaluateDisjuncts(disjunct_vec, i, truth_values, contains_unknown_children) ==
    IF i > Len(disjunct_vec)
    THEN IF contains_unknown_children THEN "Unrestricted" ELSE "MustBeFalse"
    ELSE LET value == evaluate(disjunct_vec[i], truth_values)
         IN  IF value = "MustBeTrue" THEN "MustBeTrue"
             ELSE EvaluateDisjuncts(disjunct_vec, i + 1, truth_values,
                                    contains_unknown_children \/ value = "Unrestricted")
evaluate(formula, truth_values) ==
    CASE formula.kind = "False" -> "MustBeFalse"
      [] formula.kind = "True" -> "MustBeTrue"
      [] formula.kind = "Literal" -> evaluate_single_literal(formula.lit, truth_values)
      [] formula.kind = "Conjunction" ->
            EvaluateConjuncts(formula.operands, 1, truth_values, FALSE)
      [] formula.kind = "Disjunction" ->
            EvaluateDisjuncts(formula.operands, 1, truth_values, FALSE)

\* ------------------------------------------------ TruthTableSize5Computer
\* new_bitmask = 0b111; for _j in 4..=num_bits {new_bitmask = (new_bitmask << 1) | 1}
RECURSIVE NewBitmask(_, _, _)
NewBitmask(bm, j, num_bits) ==
    IF j > num_bits THEN bm
    ELSE NewBitmask(BitOr(Shl(bm, 1), {0}), j + 1, num_bits)

\* for _i in 3..=num_booleans { duplicate each bitmask; push the new one; double num_bits }
RECURSIVE PositiveLoop(_, _, _, _)
PositiveLoop(vec, num_bits, i, num_booleans) ==
    IF i > num_booleans THEN vec
    ELSE LET dup == [j \in 1 .. Len(vec) |-> BitOr(Shl(vec[j], num_bits), vec[j])]
             nb == NewBitmask({0, 1, 2}, 4, num_bits)
         IN  PositiveLoop(Append(dup, Shl(nb, num_bits)), num_bits * 2, i + 1, num_booleans)

Reverse(s) == [j \in 1 .. Len(s) |-> s[Len(s) + 1 - j]]

\* line 135 with the limit one too high
NewPanics_UpToSix(num_booleans) == num_booleans > 6 \/ num_booleans = 0

NewPanics(num_booleans) == num_booleans > 5 \/ num_booleans = 0

\* lines 139-178, without the final reverse()
PositiveBitmasks_NoReverse(num_booleans) ==
    IF num_booleans = 1 THEN << {1} >>
    ELSE PositiveLoop(<< {1, 3}, {2, 3} >>, 4, 3, num_booleans)

\* lines 139-178: positive_bitmask_vec
PositiveBitmasks(num_booleans) ==
    IF num_booleans = 1 THEN << {1} >>
    ELSE Reverse(PositiveLoop(<< {1, 3}, {2, 3} >>, 4, 3, num_booleans))

\* line 197 without "& total_bitmask"
NegativeBitmasks_NoMask(num_booleans, positive_bitmask_vec) ==
    LET two_to_n_minus_1 == 2 ^ (num_booleans - 1)
        first_positive_bitmask == positive_bitmask_vec[1]
        first_negative_bitmask == Shr(first_positive_bitmask, two_to_n_minus_1)
    IN  IF num_booleans = 1 THEN << {0} >>
        ELSE [i \in 1 .. Len(positive_bitmask_vec) |->
                IF i = 1 THEN first_negative_bitmask
                ELSE BitNot(positive_bitmask_vec[i])]

\* lines 180-199: negative_bitmask_vec
NegativeBitmasks(num_booleans, positive_bitmask_vec) ==
    LET two_to_n_minus_1 == 2 ^ (num_booleans - 1)
        first_positive_bitmask == positive_bitmask_vec[1]
        first_negative_bitmask == Shr(first_positive_bitmask, two_to_n_minus_1)
        total_bitmask == BitOr(first_positive_bitmask, first_negative_bitmask)
    IN  IF num_booleans = 1 THEN << {0} >>
        ELSE [i \in 1 .. Len(positive_bitmask_vec) |->
                IF i = 1 THEN first_negative_bitmask
                ELSE BitAnd(BitNot(positive_bitmask_vec[i]), total_bitmask)]

\* the two vectors stored into each other's field
TruthTableSize5Computer_new_Swapped(num_booleans) ==
    [positive_bitmask_vec |-> NegativeBitmasks(num_booleans, PositiveBitmasks(num_booleans)),
     negative_bitmask_vec |-> PositiveBitmasks(num_booleans)]

TruthTableSize5Computer_new(num_booleans) ==
    [positive_bitmask_vec |-> PositiveBitmasks(num_booleans),
     negative_bitmask_vec |-> NegativeBitmasks(num_booleans, PositiveBitmasks(num_booleans))]

RECURSIVE compute_truth_table(_, _)
RECURSIVE AndFold(_, _, _, _)
RECURSIVE OrFold(_, _, _, _)
\* the conjunction folded with | in place of &
AndFold_WithOr(tt, ops, i, truth_table) ==
    IF i > Len(ops) THEN truth_table
    ELSE AndFold(tt, ops, i + 1, BitOr(truth_table, compute_truth_table(tt, ops[i])))
AndFold(tt, ops, i, truth_table) ==
    IF i > Len(ops) THEN truth_table
    ELSE AndFold(tt, ops, i + 1, BitAnd(truth_table, compute_truth_table(tt, ops[i])))
OrFold(tt, ops, i, truth_table) ==
    IF i > Len(ops) THEN truth_table
    ELSE OrFold(tt, ops, i + 1, BitOr(truth_table, compute_truth_table(tt, ops[i])))
compute_truth_table(tt, formula) ==
    CASE formula.kind = "False" -> {}
      [] formula.kind = "True" ->
            BitOr(tt.positive_bitmask_vec[1], tt.negative_bitmask_vec[1])
      [] formula.kind = "Literal" ->
            IF is_positive_literal(formula.lit)
            THEN tt.positive_bitmask_vec[get_variable_index(formula.lit)]
            ELSE tt.negative_bitmask_vec[get_variable_index(formula.lit)]
      [] formula.kind = "Conjunction" -> AndFold(tt, formula.operands, 1, U32_MAX)
      [] formula.kind = "Disjunction" -> OrFold(tt, formula.operands, 1, {})

\* ------------------------------------------------------ powers of two (u32)
\* 1 << n
compute_two_to_n(n) == 2 ^ n

\* 1 << (1 << n) in u32.  A shift by 32 or more overflows: a build with overflow
\* checks panics, a build without them shifts by the amount modulo 32.
compute_two_to_two_to_n(n, checks) ==
    LET amount == 2 ^ n
    IN  IF amount < WORD_BITS THEN [panic |-> FALSE, value |-> 2 ^ amount]
        ELSE IF checks THEN [panic |-> TRUE, value |-> 0]
        ELSE [panic |-> FALSE, value |-> 2 ^ (amount % WORD_BITS)]

\* ---------------------------------------------------- AssignFlagsIterator
AssignFlagsIterator_new(boolean_indexes_vec) ==
    [boolean_indexes_vec |-> boolean_indexes_vec,
     configuration |-> 0,
     num_configurations |-> compute_two_to_n(Len(boolean_indexes_vec))]

\* line 222 with > in place of >= : one configuration too many
AssignFlagsIterator_next_OneMore(it) ==
    IF it.configuration > it.num_configurations
    THEN [none |-> TRUE, item |-> <<>>, it |-> it]
    ELSE [none |-> FALSE,
          item |-> [index_index \in 1 .. Len(it.boolean_indexes_vec) |->
                      IF (it.configuration \div (2 ^ (index_index - 1))) % 2 = 0
                      THEN NegativeLiteral(it.boolean_indexes_vec[index_index])
                      ELSE PositiveLiteral(it.boolean_indexes_vec[index_index])],
          it |-> [it EXCEPT !.configuration = it.configuration + 1]]

\* next(): none is TRUE for None; otherwise item is the vector of Some(item)
AssignFlagsIterator_next(it) ==
    IF it.configuration >= it.num_configurations
    THEN [none |-> TRUE, item |-> <<>>, it |-> it]
    ELSE [none |-> FALSE,
          item |-> [index_index \in 1 .. Len(it.boolean_indexes_vec) |->
                      \* configuration & bitmask == 0, bitmask = 1 << index_index
                      IF (it.configuration \div (2 ^ (index_index - 1))) % 2 = 0
                      THEN NegativeLiteral(it.boolean_indexes_vec[index_index])
                      ELSE PositiveLiteral(it.boolean_indexes_vec[index_index])],
          it |-> [it EXCEPT !.configuration = it.configuration + 1]]

\* for v in AssignFlagsIterator::new(vec) { push(v) }
RECURSIVE DrainIterator(_)
DrainIterator(it) ==
    LET r == AssignFlagsIterator_next(it)
    IN  IF r.none THEN <<>> ELSE << r.item >> \o DrainIterator(r.it)

\* ------------------------------------------------------- clause universe
\* The index tuples of k nested loops  for i in lo..=n { for j in i+1..=n { ... } }
RECURSIVE NestedLoops(_, _, _)
RECURSIVE NestedLoopsFrom(_, _, _, _)
NestedLoopsFrom(k, i, n, inner) ==
    IF inner > Len(NestedLoops(k - 1, i + 1, n)) THEN <<>>
    ELSE << << i >> \o NestedLoops(k - 1, i + 1, n)[inner] >>
            \o NestedLoopsFrom(k, i, n, inner + 1)
NestedLoops(k, lo, n) ==
    IF k = 0 THEN << <<>> >>
    ELSE IF lo > n THEN <<>>
    ELSE NestedLoopsFrom(k, lo, n, 1) \o NestedLoops(k, lo + 1, n)

RECURSIVE Flatten(_, _)
Flatten(ss, i) == IF i > Len(ss) THEN <<>> ELSE ss[i] \o Flatten(ss, i + 1)

SingleClauses(n) ==
    Flatten([i \in 1 .. n |-> << << PositiveLiteral(i) >>, << NegativeLiteral(i) >> >>], 1)

\* the four pushes of lines 114-117 in the order of the sign counter
PairClauses_CounterOrder(n) ==
    LET ij == NestedLoops(2, 1, n)
    IN  Flatten([t \in 1 .. Len(ij) |->
                  << << NegativeLiteral(ij[t][1]), NegativeLiteral(ij[t][2]) >>,
                     << PositiveLiteral(ij[t][1]), NegativeLiteral(ij[t][2]) >>,
                     << NegativeLiteral(ij[t][1]), PositiveLiteral(ij[t][2]) >>,
                     << PositiveLiteral(ij[t][1]), PositiveLiteral(ij[t][2]) >> >>], 1)

PairClauses(n) ==
    LET ij == NestedLoops(2, 1, n)
    IN  Flatten([t \in 1 .. Len(ij) |->
                  << << PositiveLiteral(ij[t][1]), PositiveLiteral(ij[t][2]) >>,
                     << NegativeLiteral(ij[t][1]), PositiveLiteral(ij[t][2]) >>,
                     << PositiveLiteral(ij[t][1]), NegativeLiteral(ij[t][2]) >>,
                     << NegativeLiteral(ij[t][1]), NegativeLiteral(ij[t][2]) >> >>], 1)

TripleClauses(n) ==
    LET ijk == NestedLoops(3, 1, n)
    IN  Flatten([t \in 1 .. Len(ijk) |->
                  DrainIterator(AssignFlagsIterator_new(ijk[t]))], 1)

QuadrupleClauses(n) ==
    LET ijkl == NestedLoops(4, 1, n)
    IN  Flatten([t \in 1 .. Len(ijkl) |->
                  DrainIterator(AssignFlagsIterator_new(ijkl[t]))], 1)

\* the iterator is built from vec![i, j, k, l]: m is looped over but not used
QuintupleClauses(n) ==
    LET ijklm == NestedLoops(5, 1, n)
    IN  Flatten([t \in 1 .. Len(ijklm) |->
                  DrainIterator(AssignFlagsIterator_new(SubSeq(ijklm[t], 1, 4)))], 1)

\* the pairs pushed before the single literals
literal_subarray_vec_PairsFirst(n) ==
    (IF n >= 2 THEN PairClauses(n) ELSE <<>>)
      \o SingleClauses(n)
      \o (IF n >= 3 THEN TripleClauses(n) ELSE <<>>)
      \o (IF n >= 4 THEN QuadrupleClauses(n) ELSE <<>>)
      \o (IF n >= 5 THEN QuintupleClauses(n) ELSE <<>>)

literal_subarray_vec(n) ==
    SingleClauses(n)
      \o (IF n >= 2 THEN PairClauses(n) ELSE <<>>)
      \o (IF n >= 3 THEN TripleClauses(n) ELSE <<>>)
      \o (IF n >= 4 THEN QuadrupleClauses(n) ELSE <<>>)
      \o (IF n >= 5 THEN QuintupleClauses(n) ELSE <<>>)

\* ---------------------------------------------------- LogicFormulaBucket
\* Option<SimpleLogicNode>: <<>> is None, <<f>> is Some(f)
EmptyBucket == [minimum_formula |-> <<>>, formula_vector |-> <<>>]

\* <= in place of < : a tie replaces the minimal formula
add_formula_TieReplaces(bucket, formula) ==
    [formula_vector |-> Append(bucket.formula_vector, formula),
     minimum_formula |->
        IF bucket.minimum_formula = <<>> THEN << formula >>
        ELSE IF count_binary_operators(formula)
                  <= count_binary_operators(bucket.minimum_formula[1])
             THEN << formula >>
             ELSE bucket.minimum_formula]

\* the comparison left out: the latest formula is the minimal one
add_formula_AlwaysReplace(bucket, formula) ==
    [formula_vector |-> Append(bucket.formula_vector, formula),
     minimum_formula |-> << formula >>]

add_formula(bucket, formula) ==
    [formula_vector |-> Append(bucket.formula_vector, formula),
     minimum_formula |->
        IF bucket.minimum_formula = <<>> THEN << formula >>
        ELSE IF count_binary_operators(formula)
                  < count_binary_operators(bucket.minimum_formula[1])
             THEN << formula >>
             ELSE bucket.minimum_formula]

\* ------------------------------------------------ NormalFormulaGenerator
\* A panic that unwinds through generate_cnf_from_dnf.
PanicNode == [kind |-> "PANIC", lit |-> NoLiteral, operands |-> <<>>]

RECURSIVE generate_cnf_from_dnf(_)
\* both arms build a Disjunction
generate_cnf_from_dnf_BothDisjunction(dnf_formula) ==
    CASE dnf_formula.kind \in {"False", "True", "PANIC"} -> PanicNode
      [] dnf_formula.kind = "Literal" -> dnf_formula
      [] dnf_formula.kind \in {"Conjunction", "Disjunction"} ->
            LET operands == dnf_formula.operands
                flipped_operands ==
                    [i \in 1 .. Len(operands) |-> generate_cnf_from_dnf(operands[i])]
            IN  IF \E i \in 1 .. Len(operands) : flipped_operands[i] = PanicNode
                THEN PanicNode
                ELSE Disjunction(flipped_operands)

\* False and True are handed back like a literal
generate_cnf_from_dnf_ConstantsKept(dnf_formula) ==
    CASE dnf_formula.kind = "PANIC" -> PanicNode
      [] dnf_formula.kind \in {"False", "True", "Literal"} -> dnf_formula
      [] dnf_formula.kind \in {"Conjunction", "Disjunction"} ->
            LET operands == dnf_formula.operands
                flipped_operands ==
                    [i \in 1 .. Len(operands) |-> generate_cnf_from_dnf(operands[i])]
            IN  IF \E i \in 1 .. Len(operands) : flipped_operands[i] = PanicNode
                THEN PanicNode
                ELSE IF dnf_formula.kind = "Conjunction"
                     THEN Disjunction(flipped_operands)
                     ELSE Conjunction(flipped_operands)

\* nothing is swapped: the formula comes back as it went in
generate_cnf_from_dnf_Unchanged(dnf_formula) ==
    CASE dnf_formula.kind \in {"False", "True", "PANIC"} -> PanicNode
      [] OTHER -> dnf_formula

generate_cnf_from_dnf(dnf_formula) ==
    CASE dnf_formula.kind \in {"False", "True", "PANIC"} -> PanicNode
      [] dnf_formula.kind = "Literal" -> dnf_formula
      [] dnf_formula.kind \in {"Conjunction", "Disjunction"} ->
            LET operands == dnf_formula.operands
                flipped_operands ==
                    [i \in 1 .. Len(operands) |-> generate_cnf_from_dnf(operands[i])]
            IN  IF \E i \in 1 .. Len(operands) : flipped_operands[i] = PanicNode
                THEN PanicNode
                ELSE IF dnf_formula.kind = "Conjunction"
                     THEN Disjunction(flipped_operands)
                     ELSE Conjunction(flipped_operands)

\* while without_flag > new_array[j] & MASK { j = j + 1; if j == len {return false} }
\* "oob" is a read past the end of new_array.
RECURSIVE AdvanceJ(_, _, _)
AdvanceJ(without_flag, new_array, j) ==
    IF j > Len(new_array) THEN [kind |-> "oob", j |-> j]
    ELSE IF without_flag > get_variable_index(new_array[j])
         THEN IF j + 1 > Len(new_array) THEN [kind |-> "false", j |-> j + 1]
              ELSE AdvanceJ(without_flag, new_array, j + 1)
         ELSE [kind |-> "at", j |-> j]

RECURSIVE SubarrayLoop(_, _, _, _)
SubarrayLoop(old_array, new_array, i, j) ==
    IF i > Len(old_array) THEN [oob |-> FALSE, result |-> TRUE]
    ELSE LET a == AdvanceJ(get_variable_index(old_array[i]), new_array, j)
         IN  CASE a.kind = "oob" -> [oob |-> TRUE, result |-> FALSE]
               [] a.kind = "false" -> [oob |-> FALSE, result |-> FALSE]
               [] a.kind = "at" ->
                    IF old_array[i] # new_array[a.j]
                    THEN [oob |-> FALSE, result |-> FALSE]
                    ELSE SubarrayLoop(old_array, new_array, i + 1, a.j)

\* the test of line 402 left out
is_subarray_of_NoLengthTest(old_array, new_array) ==
    SubarrayLoop(old_array, new_array, 1, 1)

is_subarray_of(old_array, new_array) ==
    IF Len(old_array) = Len(new_array) THEN [oob |-> FALSE, result |-> FALSE]
    ELSE SubarrayLoop(old_array, new_array, 1, 1)

\* is_subarray_of called with its arguments exchanged
Rejected_SwappedArguments(prefix_clauses, new_clause) ==
    IF Len(new_clause) = 1
    THEN \E c \in 1 .. Len(prefix_clauses) :
            XorIsNegativityFlag(prefix_clauses[c][1], new_clause[1])
    ELSE \E c \in 1 .. Len(prefix_clauses) :
            is_subarray_of(new_clause, prefix_clauses[c]).result

\* the unit branch left out: every clause goes through is_subarray_of
Rejected_NoUnitCheck(prefix_clauses, new_clause) ==
    \E c \in 1 .. Len(prefix_clauses) :
        is_subarray_of(prefix_clauses[c], new_clause).result

\* the longer-clause branch looks for the first literal of a prefix clause only
Rejected_FirstLiteralOnly(prefix_clauses, new_clause) ==
    IF Len(new_clause) = 1
    THEN \E c \in 1 .. Len(prefix_clauses) :
            XorIsNegativityFlag(prefix_clauses[c][1], new_clause[1])
    ELSE \E c \in 1 .. Len(prefix_clauses) :
            \E k \in 1 .. Len(new_clause) : prefix_clauses[c][1] = new_clause[k]

\* lines 293-309: TRUE when the call returns before adding the clause
Rejected(prefix_clauses, new_clause) ==
    IF Len(new_clause) = 1
    THEN \E c \in 1 .. Len(prefix_clauses) :
            XorIsNegativityFlag(prefix_clauses[c][1], new_clause[1])
    ELSE \E c \in 1 .. Len(prefix_clauses) :
            is_subarray_of(prefix_clauses[c], new_clause).result

\* lines 314-330: a clause of one literal stays a literal, others become conjunctions
ClauseFormula(clause_integers_vec) ==
    LET clause_literals_vec ==
            [k \in 1 .. Len(clause_integers_vec) |-> Literal(clause_integers_vec[k])]
    IN  IF Len(clause_literals_vec) = 1 THEN clause_literals_vec[1]
        ELSE Conjunction(clause_literals_vec)

current_conjunctions(current_clauses) ==
    [c \in 1 .. Len(current_clauses) |-> ClauseFormula(current_clauses[c])]

\* only the DNF is registered
FormulasToAdd_NoDual(current_clauses) ==
    LET conj == current_conjunctions(current_clauses)
    IN  IF Len(conj) = 1
        THEN IF conj[1].kind = "Literal" THEN << conj[1] >> ELSE <<>>
        ELSE << Disjunction(conj) >>

\* the test of line 335 left out: a lone clause is registered whatever it is
FormulasToAdd_AnyLoneClause(current_clauses) ==
    LET conj == current_conjunctions(current_clauses)
    IN  IF Len(conj) = 1
        THEN << conj[1] >>
        ELSE << generate_cnf_from_dnf(Disjunction(conj)), Disjunction(conj) >>

\* lines 332-354: the formulas handed to add_formula_to_buckets, in call order
FormulasToAdd(current_clauses) ==
    LET conj == current_conjunctions(current_clauses)
    IN  IF Len(conj) = 1
        THEN IF conj[1].kind = "Literal" THEN << conj[1] >> ELSE <<>>
        ELSE << generate_cnf_from_dnf(Disjunction(conj)), Disjunction(conj) >>

\* ------------------------------------------------------------ get_as_text
\* A text is the sequence of the pieces pushed to it, a symbol one piece per character.
CONJUNCTION_SYMBOL == << "&" >>
DISJUNCTION_SYMBOL == << "|" >>
NEGATION_SYMBOL == << "~" >>
FALSE_TEXT == << "FALSE" >>
TRUE_TEXT == << "TRUE" >>
NULL_TEXT == << "null" >>
NONE_TEXT == << "NONE" >>

RECURSIVE to_string(_)
to_string(number) ==
    LET digits == << "0", "1", "2", "3", "4", "5", "6", "7", "8", "9" >>
    IN  IF number < 10 THEN << digits[number + 1] >>
        ELSE to_string(number \div 10) \o << digits[(number % 10) + 1] >>

\* main, lines 112-115: the names p1 .. pk
BooleanNames(k) == [i \in 1 .. k |-> << "p" >> \o to_string(i)]

RECURSIVE get_as_text_helper1(_, _, _)
RECURSIVE ClauseTexts(_, _, _, _)
\* lines 145-152: the loop over the clauses from the i-th on
ClauseTexts(node_vec, i, symbol_text, boolean_name_list) ==
    IF i > Len(node_vec) THEN << >>
    ELSE get_as_text_helper1(node_vec[i], TRUE, boolean_name_list)
            \o << " " >> \o symbol_text \o << " " >>
            \o ClauseTexts(node_vec, i + 1, symbol_text, boolean_name_list)
get_as_text_helper2(node_vec, symbol_text, boolean_name_list) ==
    LET text == ClauseTexts(node_vec, 1, symbol_text, boolean_name_list)
        num_symbols_to_delete == 2 + Len(symbol_text)
    IN  SubSeq(text, 1, Len(text) - num_symbols_to_delete)
get_as_text_helper1(formula, should_parenthesize, boolean_name_list) ==
    CASE formula.kind = "False" -> FALSE_TEXT
      [] formula.kind = "True" -> TRUE_TEXT
      [] formula.kind = "Literal" ->
            (IF is_positive_literal(formula.lit) THEN << >> ELSE NEGATION_SYMBOL)
               \o boolean_name_list[get_variable_index(formula.lit)]
      [] formula.kind \in {"Conjunction", "Disjunction"} ->
            IF Len(formula.operands) = 0 THEN NULL_TEXT
            ELSE (IF should_parenthesize THEN << "(" >> ELSE << >>)
                    \o get_as_text_helper2(formula.operands,
                          IF formula.kind = "Conjunction" THEN CONJUNCTION_SYMBOL
                                                          ELSE DISJUNCTION_SYMBOL,
                          boolean_name_list)
                    \o (IF should_parenthesize THEN << ")" >> ELSE << >>)
get_as_text(formula, boolean_name_list) ==
    get_as_text_helper1(formula, FALSE, boolean_name_list)

\* ---------------------------------------------------------- HtmlGenerator
HtmlGenerator_new ==
    [html_header |-> << "<html>\n" >>, body_tag_properties |-> << >>, html_body |-> << >>,
     current_list_text |-> << >>, is_current_list_ordered |-> FALSE,
     current_table_text |-> << >>]

add_header(g, header_text, header_number) ==
    [g EXCEPT !.html_body =
        @ \o << "<h" >> \o to_string(header_number) \o << ">" >> \o header_text
          \o << "</h" >> \o to_string(header_number) \o << ">\n\n" >>]

add_paragraph(g, paragraph_text) ==
    [g EXCEPT !.html_body = @ \o << "<p>" >> \o paragraph_text \o << "</p>\n\n" >>]

list_add_row(g, row_properties, data) ==
    [g EXCEPT !.current_list_text =
        @ \o << "<li " >> \o row_properties \o << ">" >> \o data \o << "\n" >>]

list_create(g, is_ordered, list_properties) ==
    [g EXCEPT !.is_current_list_ordered = is_ordered,
              !.current_list_text =
                  (IF is_ordered THEN << "<ol " >> ELSE << "<ul " >>)
                     \o list_properties \o << ">\n" >>]

list_end(g) ==
    [g EXCEPT !.html_body =
                  @ \o g.current_list_text
                    \o (IF g.is_current_list_ordered THEN << "</ol>\n" >> ELSE << "</ul>\n" >>),
              !.current_list_text = << >>]

table_add_data_cell(g, is_header, data_properties, data) ==
    [g EXCEPT !.current_table_text =
        @ \o (IF is_header THEN << "<th " >> ELSE << "<td " >>)
          \o data_properties \o << ">" >> \o data \o << "\n" >>]
table_add_data(g, data_properties, data) == table_add_data_cell(g, FALSE, data_properties, data)
table_add_header(g, data_properties, data) == table_add_data_cell(g, TRUE, data_properties, data)

table_add_row(g, row_properties) ==
    [g EXCEPT !.current_table_text = @ \o << "<tr " >> \o row_properties \o << ">\n" >>]

table_create(g, table_properties) ==
    [g EXCEPT !.current_table_text = << "<table " >> \o table_properties \o << ">\n" >>]
table_create_with_border(g, border) ==
    table_create(g, << "border=\"" >> \o to_string(border) \o << "\"" >>)

table_end(g) ==
    [g EXCEPT !.html_body = @ \o g.current_table_text \o << "</table>\n" >>,
              !.current_table_text = << >>]

\* fmt::Display for HtmlGenerator
HtmlGenerator_fmt(g) ==
    << "<html>\n" >>
       \o (IF Len(g.html_header) > 0
           THEN << "<header>\n" >> \o g.html_header \o << "\n</header>\n" >> ELSE << >>)
       \o << "<body " >> \o g.body_tag_properties \o << ">\n" >>
       \o g.html_body \o << "</html>\n" >>

\* ------------------------------------------- add_html_for_truth_table_size_5
TABLE_BORDER_THICKNESS == 1
TABLE_HEADER_NUMBER == 3
TAG_EMPTY_PROPERTIES == << >>
T_TEXT == << "T" >>
F_TEXT == << "F" >>

\* lines 64-66
RECURSIVE NameHeaders(_, _, _)
NameHeaders(g, i, boolean_name_list) ==
    IF i >= Len(boolean_name_list) THEN g
    ELSE NameHeaders(table_add_header(g, TAG_EMPTY_PROPERTIES, boolean_name_list[i + 1]),
                     i + 1, boolean_name_list)

\* every table starts to read the conclusion at bit 31
InitialBitmask_AlwaysTop(num_booleans_u32) == {31}

\* lines 71-82
InitialBitmask(num_booleans_u32) ==
    IF num_booleans_u32 = 5 THEN {31}
    ELSE Shl({0}, 2 ^ num_booleans_u32 - 1)

\* lines 87-90: current_boolean_value | (1 << i) for i in 1..num_booleans
RECURSIVE InitialBooleanValue(_, _, _)
InitialBooleanValue(current_boolean_value, i, num_booleans) ==
    IF i >= num_booleans THEN current_boolean_value
    ELSE InitialBooleanValue(
            IF (current_boolean_value \div (2 ^ i)) % 2 = 1 THEN current_boolean_value
            ELSE current_boolean_value + 2 ^ i,
            i + 1, num_booleans)

\* lines 96-102: for i in (0..num_booleans).rev(), from i downwards
RECURSIVE BooleanColumns(_, _, _)
BooleanColumns(g, i, current_boolean_value) ==
    IF i < 0 THEN g
    ELSE BooleanColumns(
            table_add_data(g, TAG_EMPTY_PROPERTIES,
                           IF (current_boolean_value \div (2 ^ i)) % 2 = 1
                           THEN T_TEXT ELSE F_TEXT),
            i - 1, current_boolean_value)

\* lines 93-108: what one iteration of the loop pushes to current_table_text
TableRow(table_conclusion, num_booleans, bitmask, current_boolean_value) ==
    LET row == table_add_row(HtmlGenerator_new, TAG_EMPTY_PROPERTIES)
        columns == BooleanColumns(row, num_booleans - 1, current_boolean_value)
        conclusion ==
            table_add_data(columns, TAG_EMPTY_PROPERTIES,
                           IF BitAnd(table_conclusion, bitmask) # {} THEN T_TEXT ELSE F_TEXT)
    IN  conclusion.current_table_text

\* lines 92-117: what the loop pushes to current_table_text, from one iteration on
RECURSIVE TableRows(_, _, _, _)
TableRows(table_conclusion, num_booleans, bitmask, current_boolean_value) ==
    TableRow(table_conclusion, num_booleans, bitmask, current_boolean_value)
       \o (IF current_boolean_value = 0 THEN << >>
           ELSE TableRows(table_conclusion, num_booleans, Shr(bitmask, 1),
                          current_boolean_value - 1))

\* The generator afterwards and the Result: Ok(()) or Err(message).
add_html_for_truth_table_size_5(g, table_conclusion, table_title, boolean_name_list) ==
    LET headed == add_header(g, table_title, TABLE_HEADER_NUMBER)
        num_booleans == Len(boolean_name_list)
    IN  IF num_booleans > 5
        THEN [gen |-> headed, ok |-> FALSE,
              message |-> << "INTERNAL ERROR: Too many booleans " >> \o to_string(num_booleans)
                             \o << " for table " >> \o table_title
                             \o << " in get_html_for_truth_table_size_5" >>]
        ELSE LET created == table_add_row(
                                table_create_with_border(headed, TABLE_BORDER_THICKNESS),
                                TAG_EMPTY_PROPERTIES)
                 titled == table_add_header(NameHeaders(created, 0, boolean_name_list),
                                            TAG_EMPTY_PROPERTIES, table_title)
                 rows == [titled EXCEPT !.current_table_text =
                             @ \o TableRows(table_conclusion, num_booleans,
                                            InitialBitmask(num_booleans),
                                            InitialBooleanValue(1, 1, num_booleans))]
             IN  [gen |-> table_end(rows), ok |-> TRUE, message |-> << >>]

\* ------------------------------------------------------ add_html_for_formula_list
\* lines 47-50
RECURSIVE FormulaRows(_, _, _, _)
FormulaRows(g, formula_vector, i, boolean_name_list) ==
    IF i > Len(formula_vector) THEN g
    ELSE FormulaRows(list_add_row(g, << >>, get_as_text(formula_vector[i], boolean_name_list)),
                     formula_vector, i + 1, boolean_name_list)

add_html_for_formula_list(bucket, g, boolean_name_list) ==
    LET cnf_text ==
            IF bucket.minimum_formula # << >>
            THEN get_as_text(bucket.minimum_formula[1], boolean_name_list)
            ELSE NONE_TEXT
        paragraph == add_paragraph(g, << "Minimum Formula: " >> \o cnf_text)
    IN  list_end(FormulaRows(paragraph, bucket.formula_vector, 1, boolean_name_list))

\* ================================================================= state
VARIABLES
    n,                      \* argument of generate_truth_tables_with_up_to_n_variables
    overflow_checks,        \* whether the build panics on arithmetic overflow
    pc,                     \* "start", "run", "done" (returned) or "panic"
    num_truth_tables,       \* formula_buckets.len()
    formula_buckets,        \* the buckets that hold a formula, by index; every other
                            \* index below num_truth_tables holds EmptyBucket
    literal_configurations, \* the clause universe
    tt_computer,            \* the generator's TruthTableSize5Computer
    top_i,                  \* loop variable of generate_all_normal_formulas
    stack,                  \* frames of generate_all_normal_formulas_with_prefix
    pending,                \* formulas the running frame still hands to add_formula_to_buckets
    calls,                  \* number of calls of generate_all_normal_formulas_with_prefix
    visit_log,              \* history: the universe positions (prefix, then candidate)
                            \* of every call of generate_all_normal_formulas_with_prefix
    dual_input,             \* a tree handed to generate_cnf_from_dnf
    dual_output,            \* the latest result
    dual_count,             \* how often generate_cnf_from_dnf was applied
    fn_self,                \* the object a method is called on, when it is called on its own
    fn_arg,                 \* the argument of a function that is called on its own
    fn_res,                 \* what its calls returned
    fn_calls,               \* the number of its calls
    html_generator,         \* truth_table_html_generator: the HtmlGenerator of the file being written
    html_files,             \* the texts written to the files so far
    file_index,             \* loop variable of write_formula_list_to_html_files
    truth_table_counter,    \* its local truth_table
    end_point               \* its local end_point

runVarsButPc == << n, overflow_checks, num_truth_tables, formula_buckets,
                   literal_configurations, tt_computer, top_i, stack, pending, calls,
                   visit_log >>
runVars == << n, overflow_checks, pc, num_truth_tables, formula_buckets,
              literal_configurations, tt_computer, top_i, stack, pending, calls,
              visit_log >>
dualVars == << dual_input, dual_output, dual_count >>
fnVars == << fn_self, fn_arg, fn_res, fn_calls >>
htmlVars == << html_generator, html_files, file_index, truth_table_counter, end_point >>
vars == << n, overflow_checks, pc, num_truth_tables, formula_buckets,
           literal_configurations, tt_computer, top_i, stack, pending, calls,
           visit_log, dual_input, dual_output, dual_count, fn_self, fn_arg, fn_res, fn_calls,
           html_generator, html_files, file_index, truth_table_counter, end_point >>

NoComputer == [positive_bitmask_vec |-> <<>>, negative_bitmask_vec |-> <<>>]

BucketAt(buckets, t) == IF t \in DOMAIN buckets THEN buckets[t] ELSE EmptyBucket
PutBucket(buckets, t, b) ==
    [x \in DOMAIN buckets \cup {t} |-> IF x = t THEN b ELSE buckets[x]]

DualIdle == dual_input = False /\ dual_output = False /\ dual_count = 0
FnIdle == fn_self = << >> /\ fn_arg = << >> /\ fn_res = << >> /\ fn_calls = 0
HtmlIdle ==
    /\ html_generator = << >> /\ html_files = << >>
    /\ file_index = 0 /\ truth_table_counter = 0 /\ end_point = 0

RunIdle ==
    /\ n = 0 /\ overflow_checks = TRUE /\ pc = "idle"
    /\ num_truth_tables = 0 /\ formula_buckets = << >>
    /\ literal_configurations = << >> /\ tt_computer = NoComputer
    /\ top_i = 0 /\ stack = << >> /\ pending = << >> /\ calls = 0
    /\ visit_log = << >>

Init ==
    /\ n \in 0 .. MaxN
    /\ overflow_checks \in BOOLEAN
    /\ pc = "start"
    /\ num_truth_tables = 0
    /\ formula_buckets = << >>
    /\ literal_configurations = << >>
    /\ tt_computer = NoComputer
    /\ top_i = 0
    /\ stack = << >>
    /\ pending = << >>
    /\ calls = 0
    /\ visit_log = << >>
    /\ DualIdle
    /\ FnIdle
    /\ HtmlIdle

\* lines 82-92: the buckets after the two seeding calls
SeededBuckets(num) ==
    LET b0 == PutBucket(<< >>, 0, add_formula(EmptyBucket, False))
    IN  PutBucket(b0, num - 1, add_formula(BucketAt(b0, num - 1), True))

\* generate_truth_tables_with_up_to_n_variables, lines 72-185: everything before
\* generate_all_normal_formulas is called
Start ==
    /\ pc = "start"
    /\ LET c == compute_two_to_two_to_n(n, overflow_checks)
       IN  IF n < 1 \/ c.panic
           THEN /\ pc' = "panic"
                /\ UNCHANGED << num_truth_tables, formula_buckets,
                                literal_configurations, tt_computer >>
           ELSE /\ num_truth_tables' = c.value
                /\ formula_buckets' = SeededBuckets(c.value)
                /\ literal_configurations' = literal_subarray_vec(n)
                /\ IF NewPanics(n)
                   THEN pc' = "panic" /\ UNCHANGED tt_computer
                   ELSE pc' = "run" /\ tt_computer' = TruthTableSize5Computer_new(n)
    /\ UNCHANGED << visit_log, n, overflow_checks, top_i, stack, pending, calls, dualVars, fnVars, htmlVars >>

Frame(prefix_clauses, clause_to_add_index) ==
    [prefix_clauses |-> prefix_clauses,
     clause_to_add_index |-> clause_to_add_index,
     current_clauses |-> << >>,
     i |-> 0,
     phase |-> "enter"]

Top == stack[Len(stack)]
\* the universe positions of the clauses the frames of a stack have added
Positions(frames) == [d \in 1 .. Len(frames) |-> frames[d].clause_to_add_index]
Pop == SubSeq(stack, 1, Len(stack) - 1)

\* generate_all_normal_formulas, lines 280-284: one iteration of the loop
TopCall ==
    /\ pc = "run" /\ stack = << >>
    /\ top_i < Len(literal_configurations)
    /\ calls < MaxCalls
    /\ stack' = << Frame(<< >>, top_i) >>
    /\ top_i' = top_i + 1
    /\ calls' = calls + 1
    /\ visit_log' = Append(visit_log, << top_i >>)
    /\ UNCHANGED << n, overflow_checks, pc, num_truth_tables, formula_buckets,
                    literal_configurations, tt_computer, pending, dualVars, fnVars, htmlVars >>

\* generate_all_normal_formulas returns and line 187 hands the buckets back
Finish ==
    /\ pc = "run" /\ stack = << >>
    /\ top_i >= Len(literal_configurations)
    /\ pc' = "done"
    /\ UNCHANGED << visit_log, n, overflow_checks, num_truth_tables, formula_buckets,
                    literal_configurations, tt_computer, top_i, stack, pending,
                    calls, dualVars, fnVars, htmlVars >>

\* the rejected candidate is only skipped: the call goes on to its loop with the prefix
EnterRejected_SkipOnly ==
    /\ pc = "run" /\ stack # << >> /\ Top.phase = "enter"
    /\ Rejected(Top.prefix_clauses, literal_configurations[Top.clause_to_add_index + 1])
    /\ stack' = [stack EXCEPT ![Len(stack)] =
                   [@ EXCEPT !.current_clauses = Top.prefix_clauses,
                             !.i = Top.clause_to_add_index + 1,
                             !.phase = "loop"]]
    /\ UNCHANGED << visit_log, n, overflow_checks, pc, num_truth_tables, formula_buckets,
                    literal_configurations, tt_computer, top_i, pending, calls, dualVars, fnVars, htmlVars >>

\* generate_all_normal_formulas_with_prefix, lines 290-309: the candidate is rejected
EnterRejected ==
    /\ pc = "run" /\ stack # << >> /\ Top.phase = "enter"
    /\ Rejected(Top.prefix_clauses, literal_configurations[Top.clause_to_add_index + 1])
    /\ stack' = Pop
    /\ UNCHANGED << visit_log, n, overflow_checks, pc, num_truth_tables, formula_buckets,
                    literal_configurations, tt_computer, top_i, pending, calls, dualVars, fnVars, htmlVars >>

\* the loop of line 357 started at clause_to_add_index instead of clause_to_add_index + 1
EnterAccepted_LoopFromSelf ==
    /\ pc = "run" /\ stack # << >> /\ Top.phase = "enter"
    /\ LET new_clause == literal_configurations[Top.clause_to_add_index + 1]
           current == Append(Top.prefix_clauses, new_clause)
       IN  /\ ~Rejected(Top.prefix_clauses, new_clause)
           /\ stack' = [stack EXCEPT ![Len(stack)] =
                          [@ EXCEPT !.current_clauses = current,
                                    !.i = Top.clause_to_add_index,
                                    !.phase = "loop"]]
           /\ pending' = FormulasToAdd(current)
    /\ UNCHANGED << visit_log, n, overflow_checks, pc, num_truth_tables, formula_buckets,
                    literal_configurations, tt_computer, top_i, calls, dualVars, fnVars, htmlVars >>

\* lines 290-354: the candidate is added and the formulas to register are built
EnterAccepted ==
    /\ pc = "run" /\ stack # << >> /\ Top.phase = "enter"
    /\ LET new_clause == literal_configurations[Top.clause_to_add_index + 1]
           current == Append(Top.prefix_clauses, new_clause)
       IN  /\ ~Rejected(Top.prefix_clauses, new_clause)
           /\ stack' = [stack EXCEPT ![Len(stack)] =
                          [@ EXCEPT !.current_clauses = current,
                                    !.i = Top.clause_to_add_index + 1,
                                    !.phase = "loop"]]
           /\ pending' = FormulasToAdd(current)
    /\ UNCHANGED << visit_log, n, overflow_checks, pc, num_truth_tables, formula_buckets,
                    literal_configurations, tt_computer, top_i, calls, dualVars, fnVars, htmlVars >>

\* add_formula_to_buckets, lines 270-275
AddFormulaToBuckets ==
    /\ pc = "run" /\ pending # << >>
    /\ LET formula == Head(pending)
           truth_table == compute_truth_table(tt_computer, formula)
       IN  IF WordLess(truth_table, NatToWord(num_truth_tables))
           THEN /\ formula_buckets' =
                      PutBucket(formula_buckets, WordToNat(truth_table),
                                add_formula(BucketAt(formula_buckets, WordToNat(truth_table)),
                                            formula))
                /\ pending' = Tail(pending)
                /\ pc' = pc
           ELSE \* index out of bounds
                /\ pc' = "panic"
                /\ UNCHANGED << formula_buckets, pending >>
    /\ UNCHANGED << visit_log, n, overflow_checks, num_truth_tables, literal_configurations,
                    tt_computer, top_i, stack, calls, dualVars, fnVars, htmlVars >>

\* the loop variable of line 357 does not advance
LoopCall_SamePosition ==
    /\ pc = "run" /\ stack # << >> /\ Top.phase = "loop" /\ pending = << >>
    /\ Top.i < Len(literal_configurations)
    /\ calls < MaxCalls
    /\ stack' = Append(stack, Frame(Top.current_clauses, Top.i))
    /\ calls' = calls + 1
    /\ visit_log' = Append(visit_log, Positions(stack) \o << Top.i >>)
    /\ UNCHANGED << n, overflow_checks, pc, num_truth_tables, formula_buckets,
                    literal_configurations, tt_computer, top_i, pending, dualVars, fnVars, htmlVars >>

\* lines 356-360: one iteration of the loop over the later clauses
LoopCall ==
    /\ pc = "run" /\ stack # << >> /\ Top.phase = "loop" /\ pending = << >>
    /\ Top.i < Len(literal_configurations)
    /\ calls < MaxCalls
    /\ stack' = Append([stack EXCEPT ![Len(stack)] = [@ EXCEPT !.i = Top.i + 1]],
                       Frame(Top.current_clauses, Top.i))
    /\ calls' = calls + 1
    /\ visit_log' = Append(visit_log, Positions(stack) \o << Top.i >>)
    /\ UNCHANGED << n, overflow_checks, pc, num_truth_tables, formula_buckets,
                    literal_configurations, tt_computer, top_i, pending, dualVars, fnVars, htmlVars >>

\* line 361: the loop is over and the call returns
LoopReturn ==
    /\ pc = "run" /\ stack # << >> /\ Top.phase = "loop" /\ pending = << >>
    /\ Top.i >= Len(literal_configurations)
    /\ stack' = Pop
    /\ UNCHANGED << visit_log, n, overflow_checks, pc, num_truth_tables, formula_buckets,
                    literal_configurations, tt_computer, top_i, pending, calls, dualVars, fnVars, htmlVars >>

Next ==
    \/ Start
    \/ TopCall
    \/ Finish
    \/ EnterRejected
    \/ EnterAccepted
    \/ AddFormulaToBuckets
    \/ LoopCall
    \/ LoopReturn

Spec == Init /\ [][Next]_vars

\* The run is one sequential thread: as long as a step is possible, one is taken.
\* The assumption is made for the runs that the call bound lets complete (n = 1, 2).
SpecFair == Spec /\ WF_vars(n \in 1 .. 2 /\ Next)

\* ============================================ generate_cnf_from_dnf alone
\* The literals of the trees handed to generate_cnf_from_dnf.
DualLiterals == {Literal(PositiveLiteral(1)), Literal(NegativeLiteral(2))}

\* Trees of exactly s nodes built from Literal, Conjunction and Disjunction, and
\* the sequences of such trees with s nodes in total.
RECURSIVE TreesOfSize(_)
RECURSIVE ForestsOfSize(_)
TreesOfSize(s) ==
    IF s = 1 THEN DualLiterals \cup {Conjunction(<< >>), Disjunction(<< >>)}
    ELSE {Conjunction(f) : f \in ForestsOfSize(s - 1) \ {<< >>}}
            \cup {Disjunction(f) : f \in ForestsOfSize(s - 1) \ {<< >>}}
ForestsOfSize(s) ==
    IF s = 0 THEN {<< >>}
    ELSE UNION {{<< t >> \o f : t \in TreesOfSize(j), f \in ForestsOfSize(s - j)} :
                    j \in 1 .. s}
DualTrees == UNION {TreesOfSize(s) : s \in 1 .. MaxNodes}

InitDual ==
    /\ RunIdle
    /\ FnIdle
    /\ HtmlIdle
    /\ dual_input \in DualTrees
    /\ dual_output = dual_input
    /\ dual_count = 0

\* dual_output = generate_cnf_from_dnf(&dual_output)
ApplyDual ==
    /\ dual_count < 2
    /\ dual_output' = generate_cnf_from_dnf(dual_output)
    /\ dual_count' = dual_count + 1
    /\ UNCHANGED << dual_input, runVars, fnVars, htmlVars >>

NextDual == ApplyDual

SpecDual == InitDual /\ [][NextDual]_vars

\* ================================================ one LogicFormulaBucket alone
BucketFormulas ==
    {False,
     Literal(PositiveLiteral(1)),
     Literal(NegativeLiteral(1)),
     Conjunction(<< Literal(PositiveLiteral(1)), Literal(NegativeLiteral(1)) >>),
     Disjunction(<< Literal(NegativeLiteral(1)), Literal(PositiveLiteral(2)) >>),
     Disjunction(<< Conjunction(<< Literal(PositiveLiteral(1)), Literal(PositiveLiteral(2)) >>),
                    Literal(NegativeLiteral(1)) >>)}

InitBucket ==
    /\ n = 0 /\ overflow_checks = TRUE /\ pc = "bucket"
    /\ num_truth_tables = 1 /\ formula_buckets = << >>
    /\ literal_configurations = << >> /\ tt_computer = NoComputer
    /\ top_i = 0 /\ stack = << >> /\ pending = << >> /\ calls = 0
    /\ visit_log = << >>
    /\ DualIdle
    /\ FnIdle
    /\ HtmlIdle

\* formula_buckets[0].add_formula(formula) for any formula
BucketAddFormula ==
    /\ pc = "bucket"
    /\ Len(BucketAt(formula_buckets, 0).formula_vector) < MaxAdds
    /\ \E formula \in BucketFormulas :
          formula_buckets' =
              PutBucket(formula_buckets, 0,
                        add_formula(BucketAt(formula_buckets, 0), formula))
    /\ UNCHANGED << visit_log, n, overflow_checks, pc, num_truth_tables, literal_configurations,
                    tt_computer, top_i, stack, pending, calls, dualVars, fnVars, htmlVars >>

NextBucket == BucketAddFormula

SpecBucket == InitBucket /\ [][NextBucket]_vars

\* ====================================== TruthTableSize5Computer on its own
\* The literals over the variables 1..k.
LiteralsUpTo(k) ==
    {Literal(PositiveLiteral(i)) : i \in 1 .. k} \cup {Literal(NegativeLiteral(i)) : i \in 1 .. k}

\* Trees of exactly s nodes over the given leaves (operand lists may be empty),
\* and the sequences of such trees with s nodes in total.
RECURSIVE EvalTreesOfSize(_, _)
RECURSIVE EvalForestsOfSize(_, _)
EvalTreesOfSize(s, leaves) ==
    IF s = 1 THEN leaves \cup {Conjunction(<< >>), Disjunction(<< >>)}
    ELSE {Conjunction(f) : f \in EvalForestsOfSize(s - 1, leaves)}
            \cup {Disjunction(f) : f \in EvalForestsOfSize(s - 1, leaves)}
EvalForestsOfSize(s, leaves) ==
    IF s = 0 THEN {<< >>}
    ELSE UNION {{<< t >> \o f : t \in EvalTreesOfSize(j, leaves),
                                f \in EvalForestsOfSize(s - j, leaves)} : j \in 1 .. s}

\* Larger trees over all of the variables 1..k: the DNF of the two clauses "all
\* positive" and "all negative", its dual, and p1 split over p2.
AllPositive(k) == [i \in 1 .. k |-> Literal(PositiveLiteral(i))]
AllNegative(k) == [i \in 1 .. k |-> Literal(NegativeLiteral(i))]
P1OverP2 ==
    Disjunction(<< Conjunction(<< Literal(PositiveLiteral(1)), Literal(PositiveLiteral(2)) >>),
                   Conjunction(<< Literal(PositiveLiteral(1)), Literal(NegativeLiteral(2)) >>) >>)
LargerTrees(k) ==
    IF k < 2 THEN {}
    ELSE {Disjunction(<< Conjunction(AllPositive(k)), Conjunction(AllNegative(k)) >>),
          Conjunction(<< Disjunction(AllPositive(k)), Disjunction(AllNegative(k)) >>),
          Conjunction(<< Disjunction(<< Conjunction(AllPositive(k)), False >>), True >>),
          P1OverP2}

\* The formulas handed to compute_truth_table of a computer for k variables.
EvalFormulas(k) ==
    IF k < 1 \/ k > 5 THEN {False}
    ELSE UNION {EvalTreesOfSize(s, LiteralsUpTo(k) \cup {False, True}) : s \in 1 .. MaxEvalNodes}
            \cup LargerTrees(k)

InitEval ==
    /\ n \in 0 .. MaxN
    /\ overflow_checks = TRUE /\ pc = "eval_new"
    /\ num_truth_tables = 0 /\ formula_buckets = << >>
    /\ literal_configurations = << >> /\ tt_computer = NoComputer
    /\ top_i = 0 /\ stack = << >> /\ pending = << >> /\ calls = 0
    /\ visit_log = << >>
    /\ DualIdle
    /\ fn_self = << >>
    /\ fn_arg \in EvalFormulas(n)
    /\ fn_res = {}
    /\ fn_calls = 0
    /\ HtmlIdle

\* tt_computer = TruthTableSize5Computer::new(n)
EvalNew ==
    /\ pc = "eval_new"
    /\ IF NewPanics(n)
       THEN pc' = "panic" /\ UNCHANGED tt_computer
       ELSE pc' = "eval" /\ tt_computer' = TruthTableSize5Computer_new(n)
    /\ UNCHANGED << visit_log, n, overflow_checks, num_truth_tables, formula_buckets,
                    literal_configurations, top_i, stack, pending, calls, dualVars, fnVars, htmlVars >>

\* fn_res = tt_computer.compute_truth_table(&fn_arg)
EvalCompute ==
    /\ pc = "eval"
    /\ fn_res' = compute_truth_table(tt_computer, fn_arg)
    /\ fn_calls' = fn_calls + 1
    /\ pc' = "evaluated"
    /\ UNCHANGED << visit_log, n, overflow_checks, num_truth_tables, formula_buckets,
                    literal_configurations, tt_computer, top_i, stack, pending, calls,
                    dualVars, fn_self, fn_arg, htmlVars >>

NextEval == EvalNew \/ EvalCompute

SpecEval == InitEval /\ [][NextEval]_vars

\* =========================================== AssignFlagsIterator on its own
\* The index vectors handed to AssignFlagsIterator::new: every vector of up to
\* MaxIterLen indices out of 1..3, and the vectors of the quadruple and quintuple loops.
IterVectors ==
    UNION {[1 .. k -> 1 .. 3] : k \in 0 .. MaxIterLen}
        \cup {NestedLoops(4, 1, 5)[t] : t \in 1 .. Len(NestedLoops(4, 1, 5))}
        \cup {<< 1, 2, 3, 4, 5 >>}

InitIter ==
    /\ n = 0 /\ overflow_checks = TRUE /\ pc = "iterate"
    /\ num_truth_tables = 0 /\ formula_buckets = << >>
    /\ literal_configurations = << >> /\ tt_computer = NoComputer
    /\ top_i = 0 /\ stack = << >> /\ pending = << >> /\ calls = 0
    /\ visit_log = << >>
    /\ DualIdle
    /\ fn_arg \in IterVectors
    /\ fn_self = AssignFlagsIterator_new(fn_arg)
    /\ fn_res = << >>
    /\ fn_calls = 0
    /\ HtmlIdle

\* fn_self.next(), its result appended to fn_res
IterNext ==
    /\ pc = "iterate"
    /\ fn_calls < 2 ^ Len(fn_arg) + ExtraCalls
    /\ LET r == AssignFlagsIterator_next(fn_self)
       IN  /\ fn_self' = r.it
           /\ fn_res' = Append(fn_res, [none |-> r.none, item |-> r.item])
    /\ fn_calls' = fn_calls + 1
    /\ UNCHANGED << runVars, dualVars, fn_arg, htmlVars >>

NextIter == IterNext

SpecIter == InitIter /\ [][NextIter]_vars

\* ================================ generate_cnf_from_dnf on trees with constants
InitDualConstants ==
    /\ n = 0 /\ overflow_checks = TRUE /\ pc = "dual"
    /\ num_truth_tables = 0 /\ formula_buckets = << >>
    /\ literal_configurations = << >> /\ tt_computer = NoComputer
    /\ top_i = 0 /\ stack = << >> /\ pending = << >> /\ calls = 0
    /\ visit_log = << >>
    /\ DualIdle
    /\ fn_self = << >>
    /\ fn_arg \in EvalFormulas(2)
    /\ fn_res = << >>
    /\ fn_calls = 0
    /\ HtmlIdle

\* fn_res = generate_cnf_from_dnf(&fn_arg), or the panic of line 369 or 372
DualCall ==
    /\ pc = "dual"
    /\ LET result == generate_cnf_from_dnf(fn_arg)
       IN  IF result = PanicNode
           THEN pc' = "panic" /\ UNCHANGED fn_res
           ELSE pc' = "dualized" /\ fn_res' = result
    /\ fn_calls' = fn_calls + 1
    /\ UNCHANGED << visit_log, n, overflow_checks, num_truth_tables, formula_buckets,
                    literal_configurations, tt_computer, top_i, stack, pending, calls,
                    dualVars, fn_self, fn_arg, htmlVars >>

NextDualConstants == DualCall

SpecDualConstants == InitDualConstants /\ [][NextDualConstants]_vars

\* ================================== evaluate next to compute_truth_table
\* The formulas handed to both evaluators for k variables: every tree of up to
\* MaxEvalNodes nodes over the first two variables, every literal, and the larger
\* trees over all k variables.
AgreeFormulas(k) ==
    IF k < 1 \/ k > 5 THEN {False}
    ELSE EvalFormulas(IF k < 2 THEN k ELSE 2) \cup LiteralsUpTo(k) \cup LargerTrees(k)
\* Every HashMap that gives a value to some of the variables 1..k.
TruthValueMaps(k) ==
    IF k < 1 \/ k > 5 THEN {<< >>}
    ELSE UNION {[S -> BOOLEAN] : S \in SUBSET (1 .. k)}

InitAgree ==
    /\ n \in 0 .. MaxN
    /\ overflow_checks = TRUE /\ pc = "eval_new"
    /\ num_truth_tables = 0 /\ formula_buckets = << >>
    /\ literal_configurations = << >> /\ tt_computer = NoComputer
    /\ top_i = 0 /\ stack = << >> /\ pending = << >> /\ calls = 0
    /\ visit_log = << >>
    /\ DualIdle
    /\ fn_self \in TruthValueMaps(n)
    /\ fn_arg \in AgreeFormulas(n)
    /\ fn_res = << >>
    /\ fn_calls = 0
    /\ HtmlIdle

\* fn_res = (tt_computer.compute_truth_table(&fn_arg), fn_arg.evaluate(&fn_self))
AgreeBoth ==
    /\ pc = "eval"
    /\ fn_res' = [table |-> compute_truth_table(tt_computer, fn_arg),
                  value |-> evaluate(fn_arg, fn_self)]
    /\ fn_calls' = fn_calls + 1
    /\ pc' = "agreed"
    /\ UNCHANGED << visit_log, n, overflow_checks, num_truth_tables, formula_buckets,
                    literal_configurations, tt_computer, top_i, stack, pending, calls,
                    dualVars, fn_self, fn_arg, htmlVars >>

NextAgree == EvalNew \/ AgreeBoth

SpecAgree == InitAgree /\ [][NextAgree]_vars

\* ================================ add_html_for_truth_table_size_5 on its own
\* The conclusions handed over with k names: every table of up to three booleans, for
\* more booleans the tables with one T row, and words with bits above the table.
TableConclusions(k) ==
    LET bits == 0 .. (2 ^ k - 1)
    IN  IF k <= 3 THEN SUBSET bits \cup {U32_MAX, {31}}
        ELSE IF k <= 5 THEN {{b} : b \in bits} \cup {{}, bits, U32_MAX}
        ELSE {{}, U32_MAX}

InitTable ==
    /\ n \in 0 .. MaxN
    /\ overflow_checks = TRUE /\ pc = "table"
    /\ num_truth_tables = 0 /\ formula_buckets = << >>
    /\ literal_configurations = << >> /\ tt_computer = NoComputer
    /\ top_i = 0 /\ stack = << >> /\ pending = << >> /\ calls = 0
    /\ visit_log = << >>
    /\ DualIdle
    /\ fn_self = << >>
    /\ fn_arg \in {[table_conclusion |-> c, table_title |-> << "title" >>,
                    boolean_name_list |-> BooleanNames(n)] : c \in TableConclusions(n)}
    /\ fn_res = << >>
    /\ fn_calls = 0
    /\ html_generator = HtmlGenerator_new
    /\ html_files = << >> /\ file_index = 0 /\ truth_table_counter = 0 /\ end_point = 0

\* fn_res = add_html_for_truth_table_size_5(&mut html_generator, table_conclusion,
\*                                          table_title, &boolean_name_list)
AddTable ==
    /\ pc = "table"
    /\ LET r == add_html_for_truth_table_size_5(html_generator, fn_arg.table_conclusion,
                                                fn_arg.table_title, fn_arg.boolean_name_list)
       IN  /\ html_generator' = r.gen
           /\ fn_res' = [ok |-> r.ok, message |-> r.message]
    /\ fn_calls' = fn_calls + 1
    /\ pc' = "tabled"
    /\ UNCHANGED << runVarsButPc, dualVars, fn_self, fn_arg,
                    html_files, file_index, truth_table_counter, end_point >>

SpecTable == InitTable /\ [][AddTable]_vars

\* ============================================ write_formula_list_to_html_files
NUM_TRUTH_TABLES_PER_FILE == 256

HtmlFormulas ==
    {Literal(PositiveLiteral(1)),
     Conjunction(<< Disjunction(<< Literal(PositiveLiteral(1)),
                                   Literal(NegativeLiteral(1)) >>),
                    Literal(PositiveLiteral(1)) >>)}
RECURSIVE BucketOf(_)
\* The bucket that add_formula builds from a sequence of formulas.
BucketOf(formulas) ==
    IF formulas = << >> THEN EmptyBucket
    ELSE add_formula(BucketOf(SubSeq(formulas, 1, Len(formulas) - 1)),
                     formulas[Len(formulas)])
BucketChoices ==
    {BucketOf(formulas) : formulas \in UNION {[1 .. k -> HtmlFormulas] : k \in 0 .. MaxListLen}}
\* The bucket vectors handed over with the names p1 .. pk: for one name the four buckets
\* with False and True in the outer two; for two names one vector of sixteen buckets and
\* one that fills two files.
WrittenBuckets(k) ==
    IF k = 1
    THEN {<< BucketOf(<< False >>), b1, b2, BucketOf(<< True >>) >> :
             b1 \in BucketChoices, b2 \in BucketChoices}
    ELSE {[t \in 1 .. 16 |->
              IF t % 3 = 0
              THEN BucketOf(<< Literal(PositiveLiteral(1)), Literal(PositiveLiteral(2)) >>)
              ELSE EmptyBucket],
          [t \in 1 .. 2 * NUM_TRUTH_TABLES_PER_FILE |->
              IF t % 5 = 0 THEN BucketOf(<< Literal(PositiveLiteral(2)) >>)
              ELSE EmptyBucket]}

num_truth_files(len) ==
    IF len < NUM_TRUTH_TABLES_PER_FILE THEN 1 ELSE len \div NUM_TRUTH_TABLES_PER_FILE

InitHtml ==
    /\ n \in 1 .. 2
    /\ overflow_checks = TRUE /\ pc = "write"
    /\ num_truth_tables = 0 /\ formula_buckets = << >>
    /\ literal_configurations = << >> /\ tt_computer = NoComputer
    /\ top_i = 0 /\ stack = << >> /\ pending = << >> /\ calls = 0
    /\ visit_log = << >>
    /\ DualIdle
    /\ fn_self = << >>
    /\ fn_arg \in {[tt_bucket_vec |-> v, boolean_name_list |-> BooleanNames(n)] :
                      v \in WrittenBuckets(n)}
    /\ fn_res = << >>
    /\ fn_calls = 0
    /\ HtmlIdle

\* lines 194-199: a file is begun
OpenFile ==
    /\ pc = "write"
    /\ file_index < num_truth_files(Len(fn_arg.tt_bucket_vec))
    /\ html_generator' = HtmlGenerator_new
    /\ end_point' = IF file_index + 1 = num_truth_files(Len(fn_arg.tt_bucket_vec))
                    THEN Len(fn_arg.tt_bucket_vec)
                    ELSE truth_table_counter + NUM_TRUTH_TABLES_PER_FILE
    /\ pc' = "tables"
    /\ UNCHANGED << runVarsButPc, dualVars, fnVars, html_files, file_index,
                    truth_table_counter >>

\* lines 202-215: one truth table and its bucket; an Err is only printed
WriteBucket ==
    /\ pc = "tables"
    /\ truth_table_counter < end_point
    /\ LET html_result ==
               add_html_for_truth_table_size_5(html_generator,
                                               NatToWord(truth_table_counter),
                                               to_string(truth_table_counter),
                                               fn_arg.boolean_name_list)
       IN  html_generator' =
               add_html_for_formula_list(fn_arg.tt_bucket_vec[truth_table_counter + 1],
                                         html_result.gen, fn_arg.boolean_name_list)
    /\ truth_table_counter' = truth_table_counter + 1
    /\ UNCHANGED << runVars, dualVars, fnVars, html_files, file_index, end_point >>

\* lines 217-230: the file is written
CloseFile ==
    /\ pc = "tables"
    /\ truth_table_counter >= end_point
    /\ html_files' = Append(html_files, HtmlGenerator_fmt(html_generator))
    /\ file_index' = file_index + 1
    /\ pc' = IF file_index + 1 < num_truth_files(Len(fn_arg.tt_bucket_vec))
             THEN "write" ELSE "written"
    /\ UNCHANGED << runVarsButPc, dualVars, fnVars, html_generator,
                    truth_table_counter, end_point >>

NextHtml == OpenFile \/ WriteBucket \/ CloseFile

SpecHtml == InitHtml /\ [][NextHtml]_vars

\* ================================================== is_subarray_of on its own
\* The non-empty clauses over the variables 1..MaxSubVars with strictly increasing
\* variable indices.
SubLiterals == [index : 1 .. MaxSubVars, negated : BOOLEAN]
SubClauses ==
    {clause \in UNION {[1 .. k -> SubLiterals] : k \in 1 .. MaxSubVars} :
        \A j \in 1 .. Len(clause) - 1 : clause[j].index < clause[j + 1].index}

InitSub ==
    /\ n = 0 /\ overflow_checks = TRUE /\ pc = "subarray"
    /\ num_truth_tables = 0 /\ formula_buckets = << >>
    /\ literal_configurations = << >> /\ tt_computer = NoComputer
    /\ top_i = 0 /\ stack = << >> /\ pending = << >> /\ calls = 0
    /\ visit_log = << >>
    /\ DualIdle
    /\ fn_self = << >>
    /\ fn_arg \in SubClauses \X SubClauses
    /\ fn_res = << >>
    /\ fn_calls = 0
    /\ HtmlIdle

\* fn_res = is_subarray_of(&old_array, &new_array)
SubCall ==
    /\ pc = "subarray"
    /\ fn_res' = is_subarray_of(fn_arg[1], fn_arg[2])
    /\ fn_calls' = fn_calls + 1
    /\ pc' = "compared"
    /\ UNCHANGED << visit_log, n, overflow_checks, num_truth_tables, formula_buckets,
                    literal_configurations, tt_computer, top_i, stack, pending, calls,
                    dualVars, fn_self, fn_arg, htmlVars >>

NextSub == SubCall

SpecSub == InitSub /\ [][NextSub]_vars

\* ================================================================ claims
Returned == pc = "done"
Generating == pc \in {"run", "done"}
FormulaList(t) == BucketAt(formula_buckets, t).formula_vector
MinimumFormula(t) == BucketAt(formula_buckets, t).minimum_formula
P1 == Literal(PositiveLiteral(1))
NotP1 == Literal(NegativeLiteral(1))
P2 == Literal(PositiveLiteral(2))
NotP2 == Literal(NegativeLiteral(2))
InList(f, list) == \E k \in 1 .. Len(list) : list[k] = f

\* C1: for every n in 1..=5 the entry point does not fail and its bucket array has
\* exactly 2^(2^n) entries.  (A u32 holds 2^e only for e < 32.)
C1_BucketCount ==
    (n \in 1 .. 5 /\ pc # "start") =>
        /\ pc # "panic"
        /\ 2 ^ n < WORD_BITS
        /\ num_truth_tables = 2 ^ (2 ^ n)

\* C2: during a generation run every formula in the list of bucket t, the seeded
\* False and True included, evaluates under compute_truth_table to exactly t.
C2_NoFormulaMisfiled ==
    Generating =>
        \A t \in DOMAIN formula_buckets :
            \A k \in 1 .. Len(formula_buckets[t].formula_vector) :
                compute_truth_table(tt_computer, formula_buckets[t].formula_vector[k])
                    = NatToWord(t)

\* C3: after any sequence of add_formula calls on a bucket, the minimal formula is
\* present iff the list is non-empty, and it is the first list member among those
\* with the smallest count_binary_operators value.
FirstSmallest(list) ==
    CHOOSE k \in 1 .. Len(list) :
        /\ \A m \in 1 .. Len(list) :
              count_binary_operators(list[k]) <= count_binary_operators(list[m])
        /\ \A m \in 1 .. (k - 1) :
              count_binary_operators(list[k]) < count_binary_operators(list[m])
BucketMinimumOk(bucket) ==
    /\ (bucket.minimum_formula # << >>) <=> (bucket.formula_vector # << >>)
    /\ bucket.formula_vector # << >> =>
          /\ InList(bucket.minimum_formula[1], bucket.formula_vector)
          /\ \A m \in 1 .. Len(bucket.formula_vector) :
                count_binary_operators(bucket.minimum_formula[1])
                    <= count_binary_operators(bucket.formula_vector[m])
          /\ bucket.minimum_formula
                = << bucket.formula_vector[FirstSmallest(bucket.formula_vector)] >>
C3_MinimalFormula == BucketMinimumOk(BucketAt(formula_buckets, 0))
\* a smaller formula displaced the first one and a later tie did not displace it
C3_Witness ==
    /\ pc = "bucket"
    /\ Len(FormulaList(0)) = 3
    /\ MinimumFormula(0) = << FormulaList(0)[2] >>
    /\ FormulaList(0)[3] # FormulaList(0)[2]
    /\ count_binary_operators(FormulaList(0)[3]) = count_binary_operators(FormulaList(0)[2])
    /\ count_binary_operators(FormulaList(0)[1]) > count_binary_operators(FormulaList(0)[2])

\* C4: when a generation run completes, every one of the 2^(2^n) buckets has a
\* non-empty formula list and a minimal formula.
C4_EveryBucketFilled ==
    Returned =>
        \A t \in 0 .. (num_truth_tables - 1) :
            /\ t \in DOMAIN formula_buckets
            /\ FormulaList(t) # << >>
            /\ MinimumFormula(t) # << >>
C4_Witness == Returned /\ n = 2 /\ num_truth_tables = 16 /\ calls > 3

\* C5: when a generation run completes, False is the first entry and the minimal
\* formula of bucket 0 and True is the first entry and the minimal formula of the
\* last bucket.
C5_ConstantsStay ==
    Returned =>
        /\ FormulaList(0)[1] = False
        /\ MinimumFormula(0) = << False >>
        /\ FormulaList(num_truth_tables - 1)[1] = True
        /\ MinimumFormula(num_truth_tables - 1) = << True >>
\* later formulas were filed into both buckets
C5_Witness ==
    /\ Returned
    /\ Len(FormulaList(0)) > 1
    /\ Len(FormulaList(num_truth_tables - 1)) > 1

\* C6: for n = 1 the run yields exactly 4 buckets: False alone in bucket 0, True alone
\* in bucket 3, p1 alone in bucket 2 and ~p1 alone in bucket 1, each literal with
\* operator count 0 and the minimal formula of its bucket.
C6_OneVariable ==
    (Returned /\ n = 1) =>
        /\ num_truth_tables = 4
        /\ DOMAIN formula_buckets = 0 .. 3
        /\ formula_buckets[0] = [minimum_formula |-> << False >>, formula_vector |-> << False >>]
        /\ formula_buckets[3] = [minimum_formula |-> << True >>, formula_vector |-> << True >>]
        /\ formula_buckets[2] = [minimum_formula |-> << P1 >>, formula_vector |-> << P1 >>]
        /\ formula_buckets[1] = [minimum_formula |-> << NotP1 >>, formula_vector |-> << NotP1 >>]
        /\ count_binary_operators(P1) = 0
        /\ count_binary_operators(NotP1) = 0
C6_Witness == Returned /\ n = 1 /\ calls = 3

\* C7: no clause list from which formulas are built contains a clause A and a longer
\* clause B such that every literal of A occurs in B with the same sign.
LiteralsContained(A, B) ==
    /\ Len(A) < Len(B)
    /\ \A k \in 1 .. Len(A) : \E m \in 1 .. Len(B) : A[k] = B[m]
NoSubsumedClause(clauses) ==
    \A a, b \in 1 .. Len(clauses) : ~LiteralsContained(clauses[a], clauses[b])
C7_NoSubsumedSiblings ==
    \A d \in 1 .. Len(stack) :
        stack[d].phase = "loop" => NoSubsumedClause(stack[d].current_clauses)
\* a DNF and its dual are about to be registered for clauses of different lengths
C7_Witness ==
    /\ Len(pending) = 2
    /\ \E a, b \in 1 .. Len(Top.current_clauses) :
          /\ Len(Top.current_clauses[a]) = 1
          /\ Len(Top.current_clauses[b]) = 2
          /\ Top.current_clauses[a][1].index = Top.current_clauses[b][1].index

\* C8: no registered formula has among its top-level clauses the single literal of a
\* variable and the single opposite literal of the same variable.
OppositeUnits(f) ==
    \E a, b \in 1 .. Len(f.operands) :
        /\ f.operands[a].kind = "Literal"
        /\ f.operands[b].kind = "Literal"
        /\ f.operands[a].lit.index = f.operands[b].lit.index
        /\ f.operands[a].lit.negated # f.operands[b].lit.negated
C8_NoOppositeUnits ==
    \A t \in DOMAIN formula_buckets :
        \A k \in 1 .. Len(formula_buckets[t].formula_vector) :
            ~OppositeUnits(formula_buckets[t].formula_vector[k])
\* the opposite of a unit of the prefix is the candidate, for a variable other than
\* p1, while formulas over that prefix are registered
C8_Witness ==
    /\ pc = "run" /\ stack # << >> /\ Top.phase = "enter"
    /\ Len(literal_configurations[Top.clause_to_add_index + 1]) = 1
    /\ literal_configurations[Top.clause_to_add_index + 1][1].index > 1
    /\ \E c \in 1 .. Len(Top.prefix_clauses) :
          /\ Top.prefix_clauses[c][1].index
                = literal_configurations[Top.clause_to_add_index + 1][1].index
          /\ Top.prefix_clauses[c][1].negated
                # literal_configurations[Top.clause_to_add_index + 1][1].negated
    /\ \E t \in DOMAIN formula_buckets :
          InList(Disjunction(current_conjunctions(Top.prefix_clauses)), FormulaList(t))

\* C9: applying generate_cnf_from_dnf twice to a tree of Literal, Conjunction and
\* Disjunction nodes yields a tree structurally equal to the original.
C9_DualInvolution == dual_count = 2 => dual_output = dual_input
C9_Witness ==
    /\ dual_count = 2
    /\ dual_input = Disjunction(<< Conjunction(<< P1, NotP2 >>), P1 >>)
    /\ dual_output = dual_input

\* C10: for n = 2 the DNF (p1 & p2) | (~p1 & ~p2) evaluates to 0b1001, its structural
\* dual (p1 | p2) & (~p1 | ~p2) evaluates to 0b0110, and the run files each into the
\* bucket of its value and into no other.
XnorDnf == Disjunction(<< Conjunction(<< P1, P2 >>), Conjunction(<< NotP1, NotP2 >>) >>)
XorCnf == Conjunction(<< Disjunction(<< P1, P2 >>), Disjunction(<< NotP1, NotP2 >>) >>)
C10_XnorAndDual ==
    (Returned /\ n = 2) =>
        /\ compute_truth_table(tt_computer, XnorDnf) = {0, 3}
        /\ generate_cnf_from_dnf(XnorDnf) = XorCnf
        /\ compute_truth_table(tt_computer, XorCnf) = {1, 2}
        /\ \A t \in DOMAIN formula_buckets :
              /\ InList(XnorDnf, FormulaList(t)) <=> t = 9
              /\ InList(XorCnf, FormulaList(t)) <=> t = 6
C10_Witness ==
    /\ Returned /\ n = 2
    /\ InList(XnorDnf, FormulaList(9))
    /\ InList(XorCnf, FormulaList(6))

\* C11: for every n in 1..=5 and every formula over the variables 1..n whose
\* Conjunctions and Disjunctions are non-empty, bit b of compute_truth_table is 1
\* exactly when the formula is true under the assignment in which variable i is true
\* iff bit (n-i) of b is 1; so for n = 2 the literal p1 and
\* Disjunction([Conjunction([p1,p2]), Conjunction([p1,~p2])]) have the same value.
VariableIsTrue(k, b, i) == (b \div (2 ^ (k - i))) % 2 = 1
RECURSIVE IsTrueUnder(_, _, _)
IsTrueUnder(f, k, b) ==
    CASE f.kind = "False" -> FALSE
      [] f.kind = "True" -> TRUE
      [] f.kind = "Literal" -> VariableIsTrue(k, b, f.lit.index) # f.lit.negated
      [] f.kind = "Conjunction" ->
            \A c \in 1 .. Len(f.operands) : IsTrueUnder(f.operands[c], k, b)
      [] f.kind = "Disjunction" ->
            \E c \in 1 .. Len(f.operands) : IsTrueUnder(f.operands[c], k, b)
RECURSIVE NoEmptyOperands(_)
NoEmptyOperands(f) ==
    f.kind \in {"Conjunction", "Disjunction"} =>
        /\ f.operands # << >>
        /\ \A c \in 1 .. Len(f.operands) : NoEmptyOperands(f.operands[c])
C11_TruthTableBits ==
    (pc = "evaluated" /\ NoEmptyOperands(fn_arg)) =>
        /\ \A b \in 0 .. (2 ^ n - 1) : (b \in fn_res) <=> IsTrueUnder(fn_arg, n, b)
        /\ n = 2 => compute_truth_table(tt_computer, P1) = compute_truth_table(tt_computer, P1OverP2)
C11_Witness ==
    /\ pc = "evaluated" /\ n = 5
    /\ fn_arg = Disjunction(<< Conjunction(AllPositive(5)), Conjunction(AllNegative(5)) >>)
    /\ fn_res = {0, 31}

\* C12: TruthTableSize5Computer::new(n) for n in 1..=5 builds n positive and n negative
\* bitmasks with positive[i] AND negative[i] = 0 and positive[i] OR negative[i] =
\* 2^(2^n)-1; for n = 1 positive[0] = 0b10 and negative[0] = 0b01.
C12_Bitmasks ==
    pc \in {"eval", "evaluated"} =>
        /\ n \in 1 .. 5
        /\ Len(tt_computer.positive_bitmask_vec) = n
        /\ Len(tt_computer.negative_bitmask_vec) = n
        /\ \A i \in 1 .. n :
              /\ BitAnd(tt_computer.positive_bitmask_vec[i],
                        tt_computer.negative_bitmask_vec[i]) = {}
              /\ BitOr(tt_computer.positive_bitmask_vec[i],
                       tt_computer.negative_bitmask_vec[i]) = 0 .. (2 ^ n - 1)
        /\ n = 1 => /\ tt_computer.positive_bitmask_vec[1] = {1}
                    /\ tt_computer.negative_bitmask_vec[1] = {0}
C12_Witness ==
    /\ pc = "eval" /\ n = 3
    /\ tt_computer.negative_bitmask_vec[2] = {0, 1, 4, 5}

\* C13: for n = 0 and for every n > 5 generate_truth_tables_with_up_to_n_variables(n)
\* ends in a fatal error: it never returns buckets and the error comes before
\* generate_all_normal_formulas enumerates anything; TruthTableSize5Computer::new(n)
\* fails exactly for n = 0 or n > 5.
OutOfRange(k) == k = 0 \/ k > 5
C13_FatalBeforeEnumeration ==
    /\ OutOfRange(n) =>
          /\ pc \in {"start", "panic"}
          /\ calls = 0 /\ visit_log = << >> /\ stack = << >> /\ top_i = 0
          /\ tt_computer = NoComputer
    /\ tt_computer # NoComputer => ~OutOfRange(n)
    /\ pc \in {"run", "done"} => tt_computer # NoComputer
    /\ \A k \in 0 .. MaxN : NewPanics(k) <=> OutOfRange(k)
C13_Witness ==
    /\ n > 5 /\ ~overflow_checks /\ pc = "panic"
    /\ literal_configurations # << >> /\ tt_computer = NoComputer

\* C14: for n = 1, 2 every non-empty set of universe clauses with no two opposite
\* single-literal clauses and no clause whose literals are all contained in a longer
\* clause of the set is assembled in increasing universe position: with two or more
\* clauses its DNF and the structural dual are registered, and a set of one
\* single-literal clause has that literal registered.
RECURSIVE Ascending(_)
Ascending(S) ==
    IF S = {} THEN << >>
    ELSE LET least == CHOOSE x \in S : \A y \in S : x <= y
         IN  << least >> \o Ascending(S \ {least})
ClausesAt(positions) ==
    [k \in 1 .. Len(positions) |-> literal_configurations[positions[k] + 1]]
OppositeUnitClauses(A, B) ==
    /\ Len(A) = 1 /\ Len(B) = 1
    /\ A[1].index = B[1].index /\ A[1].negated # B[1].negated
AdmissibleClauses(clauses) ==
    \A a, b \in 1 .. Len(clauses) :
        /\ ~OppositeUnitClauses(clauses[a], clauses[b])
        /\ ~LiteralsContained(clauses[a], clauses[b])
Registered(f) == \E t \in DOMAIN formula_buckets : InList(f, FormulaList(t))
Visited(positions) == \E v \in 1 .. Len(visit_log) : visit_log[v] = positions
C14_EveryAdmissibleSetAssembled ==
    (Returned /\ n \in 1 .. 2) =>
        \A S \in SUBSET (0 .. Len(literal_configurations) - 1) :
            LET positions == Ascending(S)
                clauses == ClausesAt(positions)
                dnf == Disjunction(current_conjunctions(clauses))
            IN  (S # {} /\ AdmissibleClauses(clauses)) =>
                    /\ Visited(positions)
                    /\ Len(clauses) >= 2 =>
                          Registered(dnf) /\ Registered(generate_cnf_from_dnf(dnf))
                    /\ (Len(clauses) = 1 /\ Len(clauses[1]) = 1) =>
                          Registered(Literal(clauses[1][1]))
\* the run for n = 2 has returned and the four two-literal clauses, which form an
\* admissible set, are registered as a DNF
C14_Witness ==
    /\ Returned /\ n = 2
    /\ AdmissibleClauses(ClausesAt(<< 4, 5, 6, 7 >>))
    /\ Visited(<< 4, 5, 6, 7 >>)
    /\ Registered(Disjunction(current_conjunctions(ClausesAt(<< 4, 5, 6, 7 >>))))

\* C15: no combination of clauses is generated twice: each strictly increasing
\* sequence of universe positions is visited at most once in a run, and no two
\* entries of the formula lists of all buckets are structurally equal.
StrictlyIncreasing(positions) ==
    \A k \in 1 .. Len(positions) - 1 : positions[k] < positions[k + 1]
C15_NothingGeneratedTwice ==
    /\ \A v \in 1 .. Len(visit_log) : StrictlyIncreasing(visit_log[v])
    /\ Cardinality({visit_log[v] : v \in 1 .. Len(visit_log)}) = Len(visit_log)
    /\ \A t, u \in DOMAIN formula_buckets :
          \A k \in 1 .. Len(FormulaList(t)), m \in 1 .. Len(FormulaList(u)) :
              FormulaList(t)[k] = FormulaList(u)[m] => (t = u /\ k = m)
\* the run for n = 2 has returned after visiting sequences of several positions and
\* some bucket lists more than one formula
C15_Witness ==
    /\ Returned /\ n = 2
    /\ \E v \in 1 .. Len(visit_log) : Len(visit_log[v]) = 4
    /\ \E t \in DOMAIN formula_buckets : Len(FormulaList(t)) >= 2

\* C16: for every n in 1..=5 the clause universe holds, for every k in 1..=n, every
\* strictly increasing k-subset of 1..n with each of its 2^k sign assignments, each
\* clause exactly once and nothing else: 3^n - 1 clauses, among them for n = 5 all
\* 32 five-literal clauses.
UniverseBuilt == literal_configurations # << >>
SignedClause(S, negative) ==
    [k \in 1 .. Cardinality(S) |->
        [index |-> Ascending(S)[k], negated |-> Ascending(S)[k] \in negative]]
EveryClause(k) ==
    {SignedClause(S, negative) : S \in (SUBSET (1 .. k)) \ {{}}, negative \in SUBSET (1 .. k)}
UniverseSet == {literal_configurations[p] : p \in 1 .. Len(literal_configurations)}
C16_UniverseIsEverySignedSubset ==
    (UniverseBuilt /\ n \in 1 .. 5) =>
        /\ UniverseSet = EveryClause(n)
        /\ Cardinality(UniverseSet) = Len(literal_configurations)
        /\ Len(literal_configurations) = 3 ^ n - 1
        /\ n = 5 => Cardinality({c \in UniverseSet : Len(c) = 5}) = 32

\* C17 (as stated): the universe is ordered in arity-ascending blocks; within a block
\* the variable subsets are in lexicographic order; within a subset, for every arity
\* including 1 and 2, the sign assignments are in counter order (counter 0 = all
\* negative first, bit j = 1 makes the j-th literal positive, all positive last).
KSubsets(k, m) == {S \in SUBSET (1 .. m) : Cardinality(S) = k}
LexLess(s, t) ==
    \E d \in 1 .. Len(s) : s[d] < t[d] /\ \A e \in 1 .. d - 1 : s[e] = t[e]
LexRank(S, m) ==
    Cardinality({U \in KSubsets(Cardinality(S), m) : LexLess(Ascending(U), Ascending(S))})
CounterClause(indices, counter) ==
    [j \in 1 .. Len(indices) |->
        [index |-> indices[j], negated |-> (counter \div (2 ^ (j - 1))) % 2 = 0]]
RECURSIVE SumFrom(_, _)
SumFrom(lengths, j) == IF j > Len(lengths) THEN 0 ELSE lengths[j] + SumFrom(lengths, j + 1)
BlockStart(k, m, Slots(_)) ==
    SumFrom([j \in 1 .. k - 1 |-> Cardinality(KSubsets(j, m)) * Slots(j)], 1)
\* the universe consists of one block per arity, subsets in lexicographic order, and
\* slot c of a subset holds the clause over Indices(subset) with counter CounterAt(k, c)
OrderedBlocks(Slots(_), Indices(_), CounterAt(_, _)) ==
    /\ Len(literal_configurations) = BlockStart(n + 1, n, Slots)
    /\ \A k \in 1 .. n : \A S \in KSubsets(k, n) : \A c \in 0 .. Slots(k) - 1 :
          literal_configurations[BlockStart(k, n, Slots) + LexRank(S, n) * Slots(k) + c + 1]
              = CounterClause(Indices(Ascending(S)), CounterAt(k, c))
TwoToThe(k) == 2 ^ k
AllIndices(t) == t
CounterAscending(k, c) == c
C17_CounterOrderInEveryArity ==
    (UniverseBuilt /\ n \in 1 .. 5) =>
        OrderedBlocks(TwoToThe, AllIndices, CounterAscending)

\* C17 (amended): arity-ascending blocks with the subsets in lexicographic order;
\* the signs of a single are positive then negative, those of a pair run through the
\* counter downwards ((+,+), (-,+), (+,-), (-,-)), those of triples and quadruples
\* through the counter upwards; the block after the quadruples (n = 5) holds for each
\* five-subset the 16 counter-ordered clauses over its first four indices.
SlotsBuilt(k) == IF k = 5 THEN 16 ELSE 2 ^ k
IndicesUsed(t) == IF Len(t) = 5 THEN SubSeq(t, 1, 4) ELSE t
CounterBuilt(k, c) == IF k <= 2 THEN 2 ^ k - 1 - c ELSE c
C17_OrderAsBuilt ==
    (UniverseBuilt /\ n \in 1 .. 5) =>
        OrderedBlocks(SlotsBuilt, IndicesUsed, CounterBuilt)
\* a universe for five variables: its first pair is (p1, p2), its first triple is all
\* negative and its last entry is the all-positive clause over 1..4
C17_Witness ==
    /\ UniverseBuilt /\ n = 5
    /\ literal_configurations[11] = << PositiveLiteral(1), PositiveLiteral(2) >>
    /\ literal_configurations[51] =
          << NegativeLiteral(1), NegativeLiteral(2), NegativeLiteral(3) >>
    /\ literal_configurations[226] =
          << PositiveLiteral(1), PositiveLiteral(2), PositiveLiteral(3), PositiveLiteral(4) >>

\* C18: an AssignFlagsIterator built from k indices yields exactly 2^k vectors and
\* then None on every later call; the c-th yielded vector (c = 0..2^k-1) has length
\* k, keeps the indices in their order, and its j-th literal is positive iff bit j
\* of c is 1; the yielded vectors are pairwise distinct.
BitOfCounter(c, j) == (c \div (2 ^ j)) % 2
C18_IteratorYields ==
    pc = "iterate" =>
        /\ Len(fn_res) = fn_calls
        /\ \A call \in 1 .. Len(fn_res) : fn_res[call].none <=> call > 2 ^ Len(fn_arg)
        /\ \A call \in 1 .. Len(fn_res) :
              ~fn_res[call].none =>
                  /\ Len(fn_res[call].item) = Len(fn_arg)
                  /\ \A j \in 1 .. Len(fn_arg) :
                        /\ fn_res[call].item[j].index = fn_arg[j]
                        /\ fn_res[call].item[j].negated = (BitOfCounter(call - 1, j - 1) = 0)
        /\ \A c, d \in 1 .. Len(fn_res) :
              (~fn_res[c].none /\ ~fn_res[d].none /\ fn_res[c].item = fn_res[d].item) => c = d
\* the iterator over (1, 2, 3, 4) has yielded its 16 vectors, the last one all
\* positive, and has answered None since
C18_Witness ==
    /\ pc = "iterate" /\ fn_arg = << 1, 2, 3, 4 >>
    /\ fn_calls = 16 + ExtraCalls
    /\ fn_res[16].item = << PositiveLiteral(1), PositiveLiteral(2),
                            PositiveLiteral(3), PositiveLiteral(4) >>
    /\ fn_res[17].none /\ fn_res[fn_calls].none

\* C19: every clause of the universe for n in 1..=5 is non-empty, has its literals
\* strictly increasing by variable index, and every index lies in 1..=n; clause
\* lengths never decrease along the universe, so every clause placed before a
\* single-literal clause is itself a single literal.
C19_ClausesWellFormed ==
    (UniverseBuilt /\ n \in 1 .. 5) =>
        /\ \A p \in 1 .. Len(literal_configurations) :
              LET clause == literal_configurations[p]
              IN  /\ clause # << >>
                  /\ \A j \in 1 .. Len(clause) : clause[j].index \in 1 .. n
                  /\ \A j \in 1 .. Len(clause) - 1 : clause[j].index < clause[j + 1].index
        /\ \A p \in 1 .. Len(literal_configurations) - 1 :
              Len(literal_configurations[p]) <= Len(literal_configurations[p + 1])
        /\ \A p, q \in 1 .. Len(literal_configurations) :
              (q < p /\ Len(literal_configurations[p]) = 1) =>
                  Len(literal_configurations[q]) = 1
\* a universe for five variables in which the tenth clause is the last single literal
\* and the last clause has four literals
C19_Witness ==
    /\ UniverseBuilt /\ n = 5
    /\ literal_configurations[10] = << NegativeLiteral(5) >>
    /\ Len(literal_configurations[11]) = 2
    /\ Len(literal_configurations[Len(literal_configurations)]) = 4

\* C20: when the current clause subset has exactly one clause, a formula is
\* registered only if that clause is a single literal; a one-clause subset whose
\* clause has two or more literals registers nothing at that step, so no Conjunction
\* and no one-child Disjunction is filed for it.
LoneClauseStep ==
    /\ stack # << >> /\ Top.phase = "loop" /\ Len(Top.current_clauses) = 1
C20_LoneClauseOnlyAsLiteral ==
    /\ LoneClauseStep =>
          /\ Len(Top.current_clauses[1]) >= 2 => pending = << >>
          /\ pending # << >> =>
                /\ Len(Top.current_clauses[1]) = 1
                /\ pending = << Literal(Top.current_clauses[1][1]) >>
    /\ \A t \in DOMAIN formula_buckets : \A k \in 1 .. Len(FormulaList(t)) :
          FormulaList(t)[k].kind \in {"Conjunction", "Disjunction"} =>
              Len(FormulaList(t)[k].operands) >= 2
\* the lone clause (~p1, p2) has been added and nothing is to be registered for it,
\* while the literals registered before it are in their buckets
C20_Witness ==
    /\ LoneClauseStep /\ n = 2
    /\ Top.current_clauses = << << NegativeLiteral(1), PositiveLiteral(2) >> >>
    /\ Top.i = Top.clause_to_add_index + 1
    /\ pending = << >>
    /\ Registered(NotP2)

\* C21 (as stated): every multi-literal clause of the universe, skipped when it is
\* visited as a single clause, is registered in some bucket as a Conjunction of
\* exactly its literals, as the structural dual of a multi-clause DNF, and that
\* registration happens later in the run than the step at which it was skipped.
LoneClauseSkipped ==
    /\ LoneClauseStep /\ Len(Top.current_clauses[1]) >= 2
LiteralsAsClauses(clause) == [k \in 1 .. Len(clause) |-> << clause[k] >>]
MultiLiteralClausesRegistered ==
    \A p \in 1 .. Len(literal_configurations) :
        LET clause == literal_configurations[p]
        IN  Len(clause) >= 2 =>
                /\ Registered(ClauseFormula(clause))
                /\ ClauseFormula(clause) =
                      generate_cnf_from_dnf(Disjunction(current_conjunctions(LiteralsAsClauses(clause))))
C21_ConjunctionRegisteredLater ==
    /\ Returned => MultiLiteralClausesRegistered
    /\ LoneClauseSkipped => ~Registered(ClauseFormula(Top.current_clauses[1]))

\* C21 (amended): at the step at which a multi-literal clause is visited as a single
\* clause and skipped, the Conjunction of exactly its literals is already
\* registered, as the structural dual of the DNF of its literals taken as
\* single-literal clauses; a run that returns has registered every such Conjunction.
C21_ConjunctionRegisteredEarlier ==
    /\ Returned => MultiLiteralClausesRegistered
    /\ LoneClauseSkipped =>
          /\ Registered(ClauseFormula(Top.current_clauses[1]))
          /\ Registered(Disjunction(current_conjunctions(LiteralsAsClauses(Top.current_clauses[1]))))
          /\ Visited([k \in 1 .. Len(Top.current_clauses[1]) |->
                        CHOOSE p \in 0 .. Len(literal_configurations) - 1 :
                            literal_configurations[p + 1] = << Top.current_clauses[1][k] >>])
\* the clause (p1, ~p2) is visited on its own and skipped while Conjunction(p1, ~p2)
\* is in a bucket
C21_Witness ==
    /\ LoneClauseSkipped /\ n = 2
    /\ Top.current_clauses = << << PositiveLiteral(1), NegativeLiteral(2) >> >>
    /\ Registered(Conjunction(<< P1, NotP2 >>))

\* C22 (as stated): when a candidate clause at universe position j is rejected
\* against the current prefix P, nothing is registered for P followed by that
\* candidate or any extension of it, and no clause at a position after j is tried
\* afterwards as an extension of that same prefix P.
\* (A call is made for an extension of a rejected sequence only if one is made with
\* a prefix whose last clause is inadmissible.)
Front(positions) == SubSeq(positions, 1, Len(positions) - 1)
Last(positions) == positions[Len(positions)]
VisitedSet == {visit_log[v] : v \in 1 .. Len(visit_log)}
InadmissibleCandidate(positions) ==
    \E c \in 1 .. Len(positions) - 1 :
        \/ OppositeUnitClauses(literal_configurations[positions[c] + 1],
                               literal_configurations[Last(positions) + 1])
        \/ LiteralsContained(literal_configurations[positions[c] + 1],
                             literal_configurations[Last(positions) + 1])
RejectedVisits == {positions \in VisitedSet : InadmissibleCandidate(positions)}
LaterPositions(positions) == (Last(positions) + 1) .. (Len(literal_configurations) - 1)
RegisteredSet ==
    UNION {{FormulaList(t)[k] : k \in 1 .. Len(FormulaList(t))} : t \in DOMAIN formula_buckets}
NothingUnderRejected ==
    LET visited == VisitedSet
        registered == RegisteredSet
    IN  /\ \A positions \in visited : ~InadmissibleCandidate(Front(positions))
        /\ \A positions \in visited :
              InadmissibleCandidate(positions) =>
                  LET dnf == Disjunction(current_conjunctions(ClausesAt(positions)))
                  IN  dnf \notin registered /\ generate_cnf_from_dnf(dnf) \notin registered
C22_PrefixAbandoned ==
    /\ NothingUnderRejected
    /\ LET visited == VisitedSet
       IN  \A positions \in visited :
              InadmissibleCandidate(positions) =>
                  \A j \in LaterPositions(positions) : Append(Front(positions), j) \notin visited

\* C22 (amended): when a candidate at position j is rejected against the prefix P,
\* nothing is registered for P followed by that candidate and no call is made for
\* any extension of it; the caller's loop goes on, and every position after j is
\* still tried as an extension of the same prefix P.
C22_OnlyCandidateAbandoned ==
    /\ NothingUnderRejected
    /\ Returned =>
          LET visited == VisitedSet
          IN  \A positions \in visited :
                 InadmissibleCandidate(positions) =>
                     \A j \in LaterPositions(positions) : Append(Front(positions), j) \in visited
\* the n = 2 run has returned: ~p1 was rejected after p1, and p2 was tried after p1
\* all the same, which registered p1 | p2
C22_Witness ==
    /\ Returned /\ n = 2
    /\ << 0, 1 >> \in RejectedVisits
    /\ << 0, 2 >> \in VisitedSet
    /\ Registered(Disjunction(<< P1, P2 >>))

\* C23: for two non-empty clauses old and new, each strictly increasing by variable
\* index, is_subarray_of(old, new) is true iff the lengths differ and every literal
\* of old occurs in new with the same sign; it is false when the lengths are equal,
\* and it never reads past the end of either array, also when old is the longer one.
EveryLiteralOccurs(old, new) == \A i \in 1 .. Len(old) : \E j \in 1 .. Len(new) : old[i] = new[j]
RECURSIVE DualWithConstantsKept(_)
DualWithConstantsKept(f) ==
    CASE f.kind \in {"False", "True", "Literal"} -> f
      [] f.kind = "Conjunction" ->
            Disjunction([c \in 1 .. Len(f.operands) |-> DualWithConstantsKept(f.operands[c])])
      [] f.kind = "Disjunction" ->
            Conjunction([c \in 1 .. Len(f.operands) |-> DualWithConstantsKept(f.operands[c])])
C24_ConstantsUnchanged ==
    /\ pc # "panic"
    /\ pc = "dualized" => fn_res = DualWithConstantsKept(fn_arg)

\* C24 (amended): generate_cnf_from_dnf applied to False or to True, or to a tree
\* that has a constant anywhere below a Conjunction or Disjunction, ends in a fatal
\* error; applied to a tree without constants it returns the tree with every
\* Conjunction and Disjunction swapped.
RECURSIVE HasConstant(_)
HasConstant(f) ==
    \/ f.kind \in {"False", "True"}
    \/ \E c \in 1 .. Len(f.operands) : HasConstant(f.operands[c])
C24_ConstantsAreFatal ==
    /\ pc = "panic" => HasConstant(fn_arg)
    /\ pc = "dualized" => (~HasConstant(fn_arg) /\ fn_res = DualWithConstantsKept(fn_arg))
\* the call on Disjunction(p1, True) has ended in the fatal error
C24_Witness ==
    /\ pc = "panic" /\ fn_calls = 1
    /\ fn_arg = Disjunction(<< P1, True >>)

\* C25: for every n in 1..=4 a generation run terminates: each recursive call of
\* generate_all_normal_formulas_with_prefix is made with a universe position strictly
\* greater than its caller's, the prefix grows by at most one clause per level, and
\* the recursion depth never exceeds the universe length; for n = 1, 2 the run
\* eventually completes.
RecursionDescends ==
    /\ Len(stack) <= Len(literal_configurations)
    /\ \A d \in 1 .. Len(stack) :
          /\ Len(stack[d].prefix_clauses) = d - 1
          /\ stack[d].clause_to_add_index < Len(literal_configurations)
          /\ d > 1 =>
                /\ stack[d].clause_to_add_index > stack[d - 1].clause_to_add_index
                /\ stack[d].prefix_clauses = stack[d - 1].current_clauses
                /\ Len(stack[d - 1].current_clauses) = Len(stack[d - 1].prefix_clauses) + 1
C25_RunTerminates ==
    /\ [](n \in 1 .. 4 => RecursionDescends)
    /\ (pc = "start" /\ n \in 1 .. 2) ~> Returned
\* the n = 2 run has returned after its 80 calls, the deepest of them four levels down
C25_Witness ==
    /\ Returned /\ n = 2 /\ calls = 80
    /\ stack = << >> /\ top_i = Len(literal_configurations)
    /\ \E v \in 1 .. Len(visit_log) : Len(visit_log[v]) = 4

\* C26: for every n in 1..=5 compute_truth_table returns a value inside the valid
\* bit window (at most 2^(2^n)-1) for every formula with in-range literals in which
\* every Conjunction has at least one child; True evaluates to exactly 2^(2^n)-1,
\* and a Conjunction with no children evaluates to the same value as True.
ValidBits(k) == 0 .. (2 ^ k - 1)
RECURSIVE NoEmptyConjunction(_)
NoEmptyConjunction(f) ==
    /\ f.kind = "Conjunction" => f.operands # << >>
    /\ \A c \in 1 .. Len(f.operands) : NoEmptyConjunction(f.operands[c])
InsideWindow ==
    (pc = "evaluated" /\ NoEmptyConjunction(fn_arg)) => fn_res \subseteq ValidBits(n)
TrueIsAllValidBits ==
    pc = "evaluated" => compute_truth_table(tt_computer, True) = ValidBits(n)
C26_ValuesInsideWindow ==
    /\ InsideWindow
    /\ TrueIsAllValidBits
    /\ (pc = "evaluated" /\ fn_arg = Conjunction(<< >>)) =>
          fn_res = compute_truth_table(tt_computer, True)

\* C27: the two evaluators agree: for n in 1..=5, every formula over the variables
\* 1..n and every total assignment, evaluate returns MustBeTrue when the bit of the
\* assignment in compute_truth_table is 1 and MustBeFalse when it is 0, never
\* Unrestricted; under a partial assignment evaluate returns MustBeTrue (MustBeFalse)
\* only if the formula is true (false) under every completion of the assignment.
Completions(k, truth_values) ==
    {b \in 0 .. (2 ^ k - 1) :
        \A i \in DOMAIN truth_values : VariableIsTrue(k, b, i) = truth_values[i]}
C27_EvaluatorsAgree ==
    pc = "agreed" =>
        /\ DOMAIN fn_self = 1 .. n =>
              \A b \in Completions(n, fn_self) :
                  fn_res.value = IF b \in fn_res.table THEN "MustBeTrue" ELSE "MustBeFalse"
        /\ fn_res.value = "MustBeTrue" =>
              \A b \in Completions(n, fn_self) : IsTrueUnder(fn_arg, n, b)
        /\ fn_res.value = "MustBeFalse" =>
              \A b \in Completions(n, fn_self) : ~IsTrueUnder(fn_arg, n, b)
\* with p1 false and p2 without a value, p2 & p1 is MustBeFalse; and a total
\* assignment has exactly one completion
C27_Witness ==
    /\ pc = "agreed" /\ n = 2
    /\ fn_arg = Conjunction(<< P2, P1 >>)
    /\ DOMAIN fn_self = {1} /\ ~fn_self[1]
    /\ fn_res.value = "MustBeFalse"
    /\ Cardinality(Completions(n, fn_self)) = 2

\* C28: each add_formula_to_buckets(f) call changes exactly one bucket, the one indexed
\* by f's truth table: it appends f as the last list entry, keeps the earlier entries
\* of that list unchanged and in order, and leaves the list and the minimal formula of
\* every other bucket, the clause universe and the evaluator's bitmasks unchanged; no
\* entry is ever removed during a run.
BucketsInUse == DOMAIN formula_buckets \cup DOMAIN formula_buckets'
\* the step of a call add_formula_to_buckets(Head(pending))
AddCallStep == pc = "run" /\ pending # << >>
AppendedToOwnBucket ==
    LET f == Head(pending)
        truth_table == compute_truth_table(tt_computer, f)
    IN  /\ WordLess(truth_table, NatToWord(num_truth_tables))
        /\ LET t == WordToNat(truth_table)
           IN  /\ BucketAt(formula_buckets', t).formula_vector = Append(FormulaList(t), f)
               /\ \A u \in BucketsInUse \ {t} :
                      BucketAt(formula_buckets', u) = BucketAt(formula_buckets, u)
        /\ literal_configurations' = literal_configurations
        /\ tt_computer' = tt_computer
NoEntryRemoved ==
    \A t \in BucketsInUse :
        /\ Len(BucketAt(formula_buckets', t).formula_vector) >= Len(FormulaList(t))
        /\ SubSeq(BucketAt(formula_buckets', t).formula_vector, 1, Len(FormulaList(t)))
              = FormulaList(t)
C28_OneBucketAppended ==
    [][(AddCallStep => AppendedToOwnBucket) /\ NoEntryRemoved]_vars

\* C29: the HTML rendering of a bucket follows the HtmlGenerator list protocol: for
\* every bucket, list_create is called before any list_add_row and before list_end, so
\* each list appended to the HTML body starts with its opening list tag, and after
\* list_end the pending list text is empty, so no row of one bucket appears in the
\* list of another.
OpeningListTags ==
    {Head(list_create(HtmlGenerator_new, is_ordered, << >>).current_list_text) :
        is_ordered \in BOOLEAN}
\* the step that renders the bucket of index truth_table_counter
BucketStep == pc = "tables" /\ truth_table_counter' = truth_table_counter + 1
AppendedBody ==
    SubSeq(html_generator'.html_body, Len(html_generator.html_body) + 1,
           Len(html_generator'.html_body))
\* what list_end appended: the text behind the paragraph of the minimum formula
AppendedList ==
    LET p == CHOOSE i \in 1 .. Len(AppendedBody) :
                 /\ AppendedBody[i] = "</p>\n\n"
                 /\ \A j \in (i + 1) .. Len(AppendedBody) : AppendedBody[j] # "</p>\n\n"
    IN  SubSeq(AppendedBody, p + 1, Len(AppendedBody))
ListStartsWithItsTag == AppendedList # << >> /\ Head(AppendedList) \in OpeningListTags
OnlyOwnRows ==
    Cardinality({i \in 1 .. Len(AppendedList) : AppendedList[i] = "<li "})
        = Len(fn_arg.tt_bucket_vec[truth_table_counter + 1].formula_vector)
C29_ListProtocol ==
    [][BucketStep => /\ ListStartsWithItsTag
                     /\ html_generator'.current_list_text = << >>
                     /\ OnlyOwnRows]_vars

\* C30: for a name list of n booleans with 1 <= n <= 5, add_html_for_truth_table_size_5
\* emits exactly 2^n data rows, ordered from the all-true assignment down to the
\* all-false one; the row of assignment value a (first named boolean = highest bit)
\* shows conclusion T iff bit a of table_conclusion is 1, the first row being the most
\* significant bit of the 2^n-bit window, the encoding compute_truth_table uses; for
\* more than 5 names it returns an error and adds no table.
TableBody == html_generator.html_body
RowStarts == {p \in 1 .. Len(TableBody) : TableBody[p] = "<tr "}
\* where each row starts; row 0 is the row of the column headers
RowStart ==
    LET starts == RowStarts
    IN  [r \in 0 .. (Cardinality(starts) - 1) |->
            CHOOSE p \in starts : Cardinality({q \in starts : q < p}) = r]
\* the text of the c-th data cell of the row that starts at p
DataCell(p, c) == TableBody[p + 4 * c]
DataCellCount == Cardinality({p \in 1 .. Len(TableBody) : TableBody[p] = "<td "})
RowShowsAssignment(p, a) ==
    /\ \A c \in 1 .. (n + 1) :
          /\ TableBody[p + 4 * c - 2] = "<td "
          /\ DataCell(p, c) \in {"T", "F"}
    /\ \A i \in 1 .. n : DataCell(p, i) = "T" <=> VariableIsTrue(n, a, i)
    /\ DataCell(p, n + 1) = "T" <=> a \in fn_arg.table_conclusion
C30_TableRows ==
    pc = "tabled" =>
        /\ n \in 1 .. 5 =>
              LET row == RowStart
              IN  /\ fn_res.ok
                  /\ DOMAIN row = 0 .. 2 ^ n
                  /\ DataCellCount = (2 ^ n) * (n + 1)
                  /\ \A r \in 1 .. 2 ^ n : RowShowsAssignment(row[r], 2 ^ n - r)
        /\ n > 5 =>
              /\ ~fn_res.ok
              /\ \A p \in 1 .. Len(TableBody) : TableBody[p] # "<table "
              /\ html_generator.current_table_text = << >>
\* three booleans, T only for p1 = T, p2 = F, p3 = T (bit 5): the third of eight rows
C30_Witness ==
    /\ pc = "tabled" /\ n = 3 /\ fn_arg.table_conclusion = {5}
    /\ DOMAIN RowStart = 0 .. 8
    /\ [c \in 1 .. 4 |-> DataCell(RowStart[3], c)] = << "T", "F", "T", "T" >>
    /\ DataCell(RowStart[1], 4) = "F"

====
